---------------------------- MODULE Spec2Model ----------------------------
(***************************************************************************)
(* The multi-turn interaction engine of the Google assistant bot:          *)
(* bot.py (the aiogram handlers and execute_service_action) together       *)
(* with the places of the five service adapters that store search results, *)
(* write FSM data and enter a pending state.                               *)
(*                                                                         *)
(* A text is a sequence of one-character strings, so that `word in text`,  *)
(* strip(), lower() and re.search(r'\d+', text) are computed as Python     *)
(* computes them.  A remote item is a natural number (its identifier).     *)
(***************************************************************************)
EXTENDS Integers, Sequences, FiniteSets, TLC

(***************************************************************************)
(* Bounds of the model.                                                    *)
(***************************************************************************)
MaxList == 2        \* most items a remote search or listing returns
MaxActions == 2     \* most actions in one translator response

(***************************************************************************)
(* Program constants.                                                      *)
(***************************************************************************)
GmailDisplayMax == 10      \* messages[:10], search_results[user_id][:10]
DriveSearchMax == 15       \* files[:15]
ShortDisplayMax == 5       \* files[:5], contacts[:5]
ContactsSearchMax == 10    \* contacts[:10]
TasksDisplayMax == 10      \* tasks[:10]

Services == {"calendar", "gmail", "contacts", "drive", "tasks"}
AllUsers == {"u1", "u2"}

(***************************************************************************)
(* BotStates (states/bot_states.py); IDLE is aiogram's state None.         *)
(***************************************************************************)
IDLE == "IDLE"
BotStates ==
    { "confirming_action", "selecting_option", "creating_event", "updating_event",
      "selecting_event", "composing_email", "selecting_email", "confirming_send",
      "adding_contact", "selecting_contact", "editing_contact", "selecting_file",
      "uploading_file", "confirming_share", "adding_task", "selecting_task",
      "editing_task" }

(***************************************************************************)
(* Texts.                                                                  *)
(***************************************************************************)
Contains(w, t) ==
    \E i \in 1..(Len(t) - Len(w) + 1) : SubSeq(t, i, i + Len(w) - 1) = w

AnyWordIn(words, t) == \E w \in words : Contains(w, t)

Lower(t) ==
    LET UpperLetters == <<"A", "B", "C", "D", "E", "F", "G", "H", "I", "J", "K", "L", "M",
                          "N", "O", "P", "Q", "R", "S", "T", "U", "V", "W", "X", "Y", "Z">>
        LowerLetters == <<"a", "b", "c", "d", "e", "f", "g", "h", "i", "j", "k", "l", "m",
                          "n", "o", "p", "q", "r", "s", "t", "u", "v", "w", "x", "y", "z">>
        LowerChar(c) ==
            IF \E i \in 1..Len(UpperLetters) : UpperLetters[i] = c
            THEN LowerLetters[CHOOSE i \in 1..Len(UpperLetters) : UpperLetters[i] = c]
            ELSE c
    IN  [i \in 1..Len(t) |-> LowerChar(t[i])]

IsSpace(c) == c \in {" ", "\t", "\n"}

Strip(t) ==
    LET keep == {i \in 1..Len(t) : ~IsSpace(t[i])}
    IN  IF keep = {} THEN <<>>
        ELSE LET lo == CHOOSE i \in keep : \A j \in keep : i <= j
                 hi == CHOOSE i \in keep : \A j \in keep : i >= j
             IN  SubSeq(t, lo, hi)

\* message.text.strip().lower()
Normalize(t) == Lower(Strip(t))

DigitChars == <<"0", "1", "2", "3", "4", "5", "6", "7", "8", "9">>
IsDigit(c) == \E i \in 1..Len(DigitChars) : DigitChars[i] = c

RECURSIVE IntOf(_)
IntOf(ds) ==
    IF ds = <<>> THEN 0
    ELSE LET DigitVal(c) == (CHOOSE i \in 1..Len(DigitChars) : DigitChars[i] = c) - 1
         IN  IntOf(SubSeq(ds, 1, Len(ds) - 1)) * 10 + DigitVal(ds[Len(ds)])

\* int(re.search(r'\d+', text).group()), or 0 when there is no match (a choice of
\* None and a choice of 0 are both falsy in `if choice and ...`).
FirstNumber(t) ==
    LET ds == {i \in 1..Len(t) : IsDigit(t[i])}
    IN  IF ds = {} THEN 0
        ELSE LET lo == CHOOSE i \in ds : \A j \in ds : i <= j
                 hi == CHOOSE i \in lo..Len(t) :
                           /\ \A j \in lo..i : IsDigit(t[j])
                           /\ (i = Len(t) \/ ~IsDigit(t[i + 1]))
             IN  IntOf(SubSeq(t, lo, hi))


EmailCancelWords ==
    { <<"c", "a", "n", "c", "e", "l">>,
      <<"s", "t", "o", "p">>,
      <<"n", "e", "v", "e", "r", "m", "i", "n", "d">>,
      <<"b", "a", "c", "k">>,
      <<"e", "x", "i", "t">> }
SelectCancelWords ==
    { <<"c", "a", "n", "c", "e", "l">>,
      <<"s", "t", "o", "p">>,
      <<"b", "a", "c", "k">> }
ConfirmWords ==
    { <<"y", "e", "s">>,
      <<"y">>,
      <<"o", "k">>,
      <<"o", "k", "a", "y">>,
      <<"s", "u", "r", "e">>,
      <<"c", "o", "n", "f", "i", "r", "m">>,
      <<"d", "e", "l", "e", "t", "e">>,
      <<"d", "e", "l", "e", "t", "e", " ", "i", "t">>,
      <<"d", "o", " ", "i", "t">>,
      <<"g", "o">>,
      <<"p", "r", "o", "c", "e", "e", "d">>,
      <<"1">>,
      <<"o", "n", "e">>,
      <<"f", "i", "r", "s", "t">>,
      <<"t", "h", "i", "s", " ", "o", "n", "e">>,
      <<"t", "h", "a", "t", " ", "o", "n", "e">> }
AffirmativeWords ==
    { <<"y", "e", "s">>,
      <<"y">>,
      <<"c", "o", "n", "f", "i", "r", "m">>,
      <<"o", "k">>,
      <<"s", "u", "r", "e">>,
      <<"d", "o", " ", "i", "t">>,
      <<"g", "o", " ", "a", "h", "e", "a", "d">>,
      <<"p", "r", "o", "c", "e", "e", "d">> }
NegativeWords ==
    { <<"n", "o">>,
      <<"n">>,
      <<"c", "a", "n", "c", "e", "l">>,
      <<"s", "t", "o", "p">>,
      <<"n", "e", "v", "e", "r", "m", "i", "n", "d">> }
number_words ==
    << <<<<"o", "n", "e">>, 1>>,
       <<<<"f", "i", "r", "s", "t">>, 1>>,
       <<<<"t", "w", "o">>, 2>>,
       <<<<"s", "e", "c", "o", "n", "d">>, 2>>,
       <<<<"t", "h", "r", "e", "e">>, 3>>,
       <<<<"t", "h", "i", "r", "d">>, 3>>,
       <<<<"f", "o", "u", "r">>, 4>>,
       <<<<"f", "o", "u", "r", "t", "h">>, 4>>,
       <<<<"f", "i", "v", "e">>, 5>>,
       <<<<"f", "i", "f", "t", "h">>, 5>>,
       <<<<"s", "i", "x">>, 6>>,
       <<<<"s", "i", "x", "t", "h">>, 6>>,
       <<<<"s", "e", "v", "e", "n">>, 7>>,
       <<<<"s", "e", "v", "e", "n", "t", "h">>, 7>>,
       <<<<"e", "i", "g", "h", "t">>, 8>>,
       <<<<"e", "i", "g", "h", "t", "h">>, 8>>,
       <<<<"n", "i", "n", "e">>, 9>>,
       <<<<"n", "i", "n", "t", "h">>, 9>>,
       <<<<"t", "e", "n">>, 10>>,
       <<<<"t", "e", "n", "t", "h">>, 10>> >>

\* The replies a user sends while an interaction is pending.
T_1 == <<"1">>
T_2 == <<"2">>
T_yes == <<"y", "e", "s">>
T_cancel == <<"c", "a", "n", "c", "e", "l">>
T_stop == <<"s", "t", "o", "p">>
T_nevermind == <<"n", "e", "v", "e", "r", "m", "i", "n", "d">>
T_back == <<"b", "a", "c", "k">>

Replies ==
    { T_1, T_2, T_yes, T_cancel, T_stop, T_nevermind, T_back,
      <<"3">>, <<"0">>,
      <<"n", "o">>,
      <<" ", "C", "a", "n", "c", "e", "l", " ">>,
      <<"h", "e", "l", "l", "o">>,
      <<"t", "w", "o">>,
      <<"2", "n", "d", " ", "o", "n", "e">>,
      <<"n", "o", " ", "w", "a", "y">> }

\* The four cancellation words of the specification.
CancelWords == { T_cancel, T_stop, T_nevermind, T_back }


(***************************************************************************)
(* Index resolution of the selection handlers.  0 stands for "no choice"   *)
(* (None), which `if choice and 1 <= choice <= len(...)` treats like 0.    *)
(***************************************************************************)
\* for word, num in number_words.items(): if word in text: choice = num; break
NumberWordChoice(text) ==
    LET hits == {i \in 1..Len(number_words) : Contains(number_words[i][1], text)}
    IN  IF hits = {} THEN 0
        ELSE number_words[CHOOSE i \in hits : \A j \in hits : i <= j][2]

\* handle_email_selection, "Determine selection"
EmailChoice(text, n) ==
    IF n = 1 /\ AnyWordIn(ConfirmWords, text) THEN 1
    ELSE IF NumberWordChoice(text) # 0 THEN NumberWordChoice(text)
    ELSE FirstNumber(text)

\* handle_event/file/contact/task_selection, "Parse choice"
DigitChoice(text) == FirstNumber(text)

InRange(choice, n) == choice # 0 /\ 1 <= choice /\ choice <= n

(***************************************************************************)
(* State.                                                                  *)
(***************************************************************************)
VARIABLES
    services,        \* GoogleAssistantBot.services: the enabled services
    users,           \* the users who talk to the bot
    fsm,             \* per user: the aiogram FSM state
    data,            \* per user: the aiogram FSM data, a function key -> value
    search_results,  \* per service and user: <Service>.search_results
    remaining,       \* per user: actions of the current response still to execute
    prompt,          \* the selection prompt the last step composed, if any
    last,            \* what the last step did: handler, reply, messages, calls
    inflight,        \* per update of a user: the handler task aiogram runs for it
    dispatched,      \* the service operations the handler tasks have called
    translation,     \* one run of GeminiProcessor: its inputs and what it returned
    conversations,   \* per user: ConversationManager.conversations[user_id]
    context,         \* what the latest call of the ConversationManager returned
    clock            \* the number of add_message calls so far (the timestamps)

\* the state of the handler tasks and of the translator
aux == <<inflight, dispatched, translation, conversations, context, clock>>

vars == <<services, users, fsm, data, search_results, remaining, prompt, last,
          inflight, dispatched, translation, conversations, context, clock>>

\* whether the collaborator operation a handler invokes returns or raises
Outcomes == {"ok", "raise"}

EmptyData == <<>>
NoResults == [has |-> FALSE, items |-> <<>>]
Stored(items) == [has |-> TRUE, items |-> items]
NoPrompt == [service |-> "none", shown |-> <<>>, range |-> <<>>, delivered |-> FALSE]
NoParams == [tag |-> "none", id |-> 0, email |-> "", role |-> ""]

\* data.get(key, default)
Get(d, k, default) == IF k \in DOMAIN d THEN d[k] ELSE default

\* FSMContext.update_data(**kv): the stored mapping is updated, not replaced
update_data(d, kv) == kv @@ d

Take(s, k) == SubSeq(s, 1, IF Len(s) < k THEN Len(s) ELSE k)
UpTo(n) == [i \in 1..n |-> i]

Call(svc, op, id, arg) == [svc |-> svc, op |-> op, id |-> id, arg |-> arg]

\* req is the action execute_service_action was called with, if it was
Step(u, handler, text, sent, calls, raised) ==
    [user |-> u, handler |-> handler, text |-> text, sent |-> sent,
     calls |-> calls, raised |-> raised,
     req |-> [service |-> "none", action |-> "none", id |-> 0, name |-> FALSE,
              email |-> "", role |-> ""]]

\* the updates whose handler tasks are followed, and a task not yet created
TaskIds == {"t1", "t2"}
NoTask == [pc |-> "none", text |-> <<>>, clears |-> FALSE, pops |-> "none"]
NoTasks == [t \in TaskIds |-> NoTask]

\* no run of the translator
NoTranslation == [op |-> "none"]

\* The configurations of enabled services (the ENABLE_<SERVICE> flags read by
\* initialize_services) the sessions are explored under: none, each service
\* alone, and two pairs.  Configurations with more services enabled at once
\* are not explored.
ServiceConfigs ==
    { {}, {"gmail"}, {"contacts"}, {"drive"}, {"tasks"}, {"calendar"},
      {"contacts", "tasks"}, {"gmail", "drive"} }

Init ==
    /\ services \in ServiceConfigs
    /\ users = {"u1"}
    /\ fsm = [u \in AllUsers |-> IDLE]
    /\ data = [u \in AllUsers |-> EmptyData]
    /\ search_results = [s \in Services |-> [u \in AllUsers |-> NoResults]]
    /\ remaining = [u \in AllUsers |-> 0]
    /\ prompt = NoPrompt
    /\ last = Step("none", "none", <<>>, <<>>, <<>>, FALSE)
    /\ inflight = NoTasks
    /\ dispatched = <<>>
    /\ translation = NoTranslation
    /\ conversations = [u \in AllUsers |-> <<>>]
    /\ context = <<>>
    /\ clock = 0

(***************************************************************************)
(* The outcome of one handler on one user's session: the new FSM state and *)
(* data, the new search results of the handler's service, the messages     *)
(* sent, the collaborator operations invoked, and whether one of them      *)
(* raised an exception.                                                    *)
(***************************************************************************)
Eff(f, d, r, sent, calls, raised) ==
    [fsm |-> f, data |-> d, res |-> r, sent |-> sent, calls |-> calls, raised |-> raised]

\* A variant of the clean-up that leaves a confirmation pending.
StillPending(r, sent, calls) == Eff("confirming_action", EmptyData, r, sent, calls, FALSE)

\* await state.clear()
Cleared(r, sent, calls) == Eff(IDLE, EmptyData, r, sent, calls, FALSE)

\* A variant of the clean-up that forgets the stored results.
NotPopped(r) == r

\* <service>.search_results.pop(user_id, None)
Popped(r) == NoResults

\* A variant of the expired-session branch that leaves the state set.
ExpiredStays(f, d, r) == Eff(f, d, r, <<"expired">>, <<>>, FALSE)

\* if not <items>: answer "... Please search again.", state.clear(), return
Expired(f, d, r) == Cleared(r, <<"expired">>, <<>>)

\* except Exception: answer the error, then state.clear()
Failed(r, calls) == Eff(IDLE, EmptyData, r, <<"error">>, calls, TRUE)

\* A variant that stores the session of the handler without the user's key.
ApplyShared(u, svc, handler, text, e) ==
    /\ fsm' = [v \in AllUsers |-> e.fsm]
    /\ data' = [v \in AllUsers |-> e.data]
    /\ search_results' = [search_results EXCEPT ![svc] = [v \in AllUsers |-> e.res]]
    /\ last' = Step(u, handler, text, e.sent, e.calls, e.raised)
    /\ prompt' = NoPrompt
    /\ UNCHANGED <<aux, services, users, remaining>>

Apply(u, svc, handler, text, e) ==
    /\ fsm' = [fsm EXCEPT ![u] = e.fsm]
    /\ data' = [data EXCEPT ![u] = e.data]
    /\ search_results' = [search_results EXCEPT ![svc][u] = e.res]
    /\ last' = Step(u, handler, text, e.sent, e.calls, e.raised)
    /\ prompt' = NoPrompt
    /\ UNCHANGED <<aux, services, users, remaining>>

(***************************************************************************)
(* handle_email_selection (StateFilter selecting_email)                    *)
(***************************************************************************)
email_selection(f, d, r, text, out) ==
    LET txt == Normalize(text)
        action == Get(d, "action", "delete")
        emails == r.items
        choice == EmailChoice(txt, Len(emails))
        id == emails[choice]
        op == CASE action = "delete" -> "delete"
                [] action = "read" -> "read"
                [] action = "mark_read" -> "mark_read"
                [] action = "mark_unread" -> "mark_unread"
                [] OTHER -> "none"
    IN  IF AnyWordIn(EmailCancelWords, txt) THEN Cleared(r, <<"cancelled">>, <<>>)
        ELSE IF "gmail" \notin services THEN Cleared(r, <<"unavailable">>, <<>>)
        ELSE IF emails = <<>> THEN Expired(f, d, r)
        ELSE IF InRange(choice, Len(emails)) THEN
            IF action = "reply" THEN
                Eff("composing_email",
                    update_data(d, ("reply_to" :> id) @@ ("email_data" :> id)),
                    r, <<"prompt_reply">>, <<>>, FALSE)
            ELSE IF op = "none" THEN Cleared(Popped(r), <<"result">>, <<>>)
            ELSE IF out = "raise" THEN
                Failed(r, <<Call("gmail", op, id, "")>>)
            ELSE Cleared(Popped(r), <<"result">>, <<Call("gmail", op, id, "")>>)
        ELSE Eff(f, d, r, <<"reprompt">>, <<>>, FALSE)

HandleEmailSelection(u) ==
    /\ u \in users /\ remaining[u] = 0
    /\ fsm[u] = "selecting_email"
    /\ \E text \in Replies, out \in Outcomes :
          Apply(u, "gmail", "email_selection", text,
                email_selection(fsm[u], data[u], search_results["gmail"][u], text, out))


(***************************************************************************)
(* handle_file_selection (StateFilter selecting_file)                      *)
(***************************************************************************)
file_selection(f, d, r, text, out) ==
    LET txt == Normalize(text)
        action == Get(d, "action", "None")
        files == r.items
        choice == DigitChoice(txt)
        id == files[choice]
        calls == CASE action = "delete" -> <<Call("drive", "delete", id, "")>>
                   [] action = "share" ->
                        <<Call("drive", "share", id, Get(d, "email", ""))>>
                   [] action = "download" -> <<Call("drive", "download", id, "")>>
                   [] OTHER -> <<>>
    IN  IF AnyWordIn(SelectCancelWords, txt) THEN Cleared(r, <<"cancelled">>, <<>>)
        ELSE IF "drive" \notin services THEN Cleared(r, <<"unavailable">>, <<>>)
        ELSE IF files = <<>> THEN Expired(f, d, r)
        ELSE IF InRange(choice, Len(files)) THEN
            IF calls # <<>> /\ out = "raise"
            THEN Failed(r, calls)
            ELSE Cleared(Popped(r), <<"result">>, calls)
        ELSE Eff(f, d, r, <<"reprompt">>, <<>>, FALSE)

HandleFileSelection(u) ==
    /\ u \in users /\ remaining[u] = 0
    /\ fsm[u] = "selecting_file"
    /\ \E text \in Replies, out \in Outcomes :
          Apply(u, "drive", "file_selection", text,
                file_selection(fsm[u], data[u], search_results["drive"][u], text, out))

(***************************************************************************)
(* handle_contact_selection (StateFilter selecting_contact)                *)
(***************************************************************************)
contact_selection(f, d, r, text, out) ==
    LET txt == Normalize(text)
        action == Get(d, "action", "None")
        contacts == r.items
        choice == DigitChoice(txt)
        id == contacts[choice]
        \* action 'update' only answers that more information is needed
        calls == IF action = "delete" THEN <<Call("contacts", "delete", id, "")>>
                 ELSE <<>>
    IN  IF AnyWordIn(SelectCancelWords, txt) THEN Cleared(r, <<"cancelled">>, <<>>)
        ELSE IF "contacts" \notin services THEN Cleared(r, <<"unavailable">>, <<>>)
        ELSE IF contacts = <<>> THEN Expired(f, d, r)
        ELSE IF InRange(choice, Len(contacts)) THEN
            IF calls # <<>> /\ out = "raise"
            THEN Failed(r, calls)
            ELSE Cleared(Popped(r), <<"result">>, calls)
        ELSE Eff(f, d, r, <<"reprompt">>, <<>>, FALSE)

HandleContactSelection(u) ==
    /\ u \in users /\ remaining[u] = 0
    /\ fsm[u] = "selecting_contact"
    /\ \E text \in Replies, out \in Outcomes :
          Apply(u, "contacts", "contact_selection", text,
                contact_selection(fsm[u], data[u], search_results["contacts"][u],
                                  text, out))

(***************************************************************************)
(* handle_task_selection (StateFilter selecting_task)                      *)
(***************************************************************************)
task_selection(f, d, r, text, out) ==
    LET txt == Normalize(text)
        action == Get(d, "action", "None")
        tasks == r.items
        choice == DigitChoice(txt)
        id == tasks[choice]
        calls == CASE action = "complete" -> <<Call("tasks", "complete", id, "")>>
                   [] action = "delete" -> <<Call("tasks", "delete", id, "")>>
                   [] OTHER -> <<>>
    IN  IF AnyWordIn(SelectCancelWords, txt) THEN Cleared(r, <<"cancelled">>, <<>>)
        ELSE IF "tasks" \notin services THEN Cleared(r, <<"unavailable">>, <<>>)
        ELSE IF tasks = <<>> THEN Expired(f, d, r)
        ELSE IF InRange(choice, Len(tasks)) THEN
            IF calls # <<>> /\ out = "raise"
            THEN Failed(r, calls)
            ELSE Cleared(Popped(r), <<"result">>, calls)
        ELSE Eff(f, d, r, <<"reprompt">>, <<>>, FALSE)

HandleTaskSelection(u) ==
    /\ u \in users /\ remaining[u] = 0
    /\ fsm[u] = "selecting_task"
    /\ \E text \in Replies, out \in Outcomes :
          Apply(u, "tasks", "task_selection", text,
                task_selection(fsm[u], data[u], search_results["tasks"][u], text, out))

(***************************************************************************)
(* handle_confirmation (StateFilter confirming_action).  The handler has   *)
(* no try/except: an exception of the confirmed operation leaves it before *)
(* state.clear() is reached.                                               *)
(***************************************************************************)
\* A variant of the else branch that ends the session after the reprompt.
confirmation_other_clears(f, d) == Cleared(NoResults, <<"reprompt">>, <<>>)

\* else: "Please reply with 'yes' to confirm or 'no' to cancel."
confirmation_other(f, d) == Eff(f, d, NoResults, <<"reprompt">>, <<>>, FALSE)

confirmation(f, d, text, out) ==
    LET txt == Normalize(text)
        service_name == Get(d, "service", "None")
        action == Get(d, "action", "None")
        params == Get(d, "params", NoParams)
        \* CalendarService defines no create_event: the call raises AttributeError
        missing == service_name = "calendar" /\ action = "create"
        calls == CASE service_name = "contacts" /\ action = "create" ->
                        <<Call("contacts", "create", params.id, params.tag)>>
                   [] service_name = "drive" /\ action = "create_folder" ->
                        <<Call("drive", "create_folder", params.id, params.tag)>>
                   [] service_name = "tasks" /\ action = "create" ->
                        <<Call("tasks", "create", params.id, params.tag)>>
                   [] OTHER -> <<>>
    IN  IF AnyWordIn(AffirmativeWords, txt) THEN
            IF service_name \in services THEN
                IF missing \/ (calls # <<>> /\ out = "raise")
                THEN Eff(f, d, NoResults, <<>>, calls, TRUE)
                ELSE IF calls # <<>>
                THEN Cleared(NoResults, <<"result">>, calls)
                ELSE Cleared(NoResults, <<>>, <<>>)
            ELSE Cleared(NoResults, <<>>, <<>>)
        ELSE IF AnyWordIn(NegativeWords, txt)
        THEN Cleared(NoResults, <<"cancelled">>, <<>>)
        ELSE confirmation_other(f, d)

HandleConfirmation(u) ==
    /\ u \in users /\ remaining[u] = 0
    /\ fsm[u] = "confirming_action"
    /\ \E text \in Replies, out \in Outcomes :
          LET e == confirmation(fsm[u], data[u], text, out)
          IN  /\ fsm' = [fsm EXCEPT ![u] = e.fsm]
              /\ data' = [data EXCEPT ![u] = e.data]
              /\ last' = Step(u, "confirmation", text, e.sent, e.calls, e.raised)
              /\ prompt' = NoPrompt
              /\ UNCHANGED <<aux, services, users, search_results, remaining>>

(***************************************************************************)
(* handle_commands (Command start, help, clear, status, services,          *)
(* preferences): registered first, so it runs in every FSM state.          *)
(***************************************************************************)

HandleCommands(u) ==
    /\ u \in users /\ remaining[u] = 0
    /\ \E cmd \in {"/start", "/help", "/clear", "/status", "/services", "/preferences"} :
          LET e == Cleared(NoResults,
                           IF cmd = "/services" /\ services = {} THEN <<>>
                           ELSE <<"command_reply">>,
                           <<>>)
          IN
          /\ fsm' = [fsm EXCEPT ![u] = e.fsm]
          /\ data' = [data EXCEPT ![u] = e.data]
          /\ last' = Step(u, "commands", <<cmd>>, e.sent, e.calls, e.raised)
          /\ prompt' = NoPrompt
          /\ UNCHANGED <<aux, services, users, search_results, remaining>>


(***************************************************************************)
(* An action request of a translator response, and the answer of the       *)
(* remote service while it is handled.                                     *)
(*   id    the explicit item identifier among the parameters, 0 if absent  *)
(*   name  whether a name, title or query is among the parameters          *)
(*   email, role  the share recipient and role of a SHARE_FILE request     *)
(***************************************************************************)
Req(svc, action, id, name, email, role) ==
    [service |-> svc, action |-> action, id |-> id, name |-> name,
     email |-> email, role |-> role]

Requests ==
    LET Emails == {"", "ann@example.com"}
        GmailRequests ==
            {Req("gmail", a, 0, FALSE, "", "") : a \in {"SEARCH_EMAILS", "LIST_UNREAD", "TRANSLATE"}}
            \cup {Req("gmail", a, i, FALSE, "", "") : a \in {"DELETE_EMAIL", "READ_EMAIL"}, i \in 0..1}
        ContactsRequests ==
            {Req("contacts", a, 0, n, "", "") : a \in {"FIND_CONTACT", "ADD_CONTACT"}, n \in BOOLEAN}
            \cup {Req("contacts", a, 0, n, "", "") :
                    a \in {"UPDATE_CONTACT", "DELETE_CONTACT"}, n \in BOOLEAN}
            \cup {Req("contacts", a, 1, FALSE, "", "") : a \in {"UPDATE_CONTACT", "DELETE_CONTACT"}}
        DriveRequests ==
            {Req("drive", a, 0, TRUE, "", "") : a \in {"SEARCH_FILES", "CREATE_FOLDER"}}
            \cup {Req("drive", "SHARE_FILE", i, FALSE, e, "writer") : i \in 0..1, e \in Emails}
            \cup {Req("drive", "DELETE_FILE", 0, n, "", "") : n \in BOOLEAN}
            \cup {Req("drive", "DELETE_FILE", 1, FALSE, "", "")}
        TasksRequests ==
            {Req("tasks", a, 0, TRUE, "", "") : a \in {"ADD_TASK", "LIST_TASKS"}}
            \cup {Req("tasks", a, 0, n, "", "") : a \in {"COMPLETE_TASK", "DELETE_TASK"}, n \in BOOLEAN}
            \cup {Req("tasks", a, 1, FALSE, "", "") : a \in {"COMPLETE_TASK", "DELETE_TASK"}}
        CalendarRequests ==
            {Req("calendar", a, 0, TRUE, "", "") :
                a \in {"CREATE_EVENT", "SEARCH_EVENTS", "VIEW_EVENTS", "CANCEL_ALL_DAY"}}
            \cup {Req("calendar", a, i, n, "", "") :
                    a \in {"UPDATE_EVENT", "DELETE_EVENT"}, i \in 0..1, n \in BOOLEAN}
    IN  GmailRequests \cup ContactsRequests \cup DriveRequests \cup TasksRequests
        \cup CalendarRequests

\*   ok    the search or listing call succeeded
\*   n     the number of items it returned (items 1..n, in the remote order)
\*   det   gmail: the messages whose detail call succeeded;
\*         tasks: the listed tasks that are not completed
\*   flag  calendar: conflicts were found / the event has attendees
EnvsFor(req) ==
    LET Envs ==
            { e \in [ok : BOOLEAN, n : 0..MaxList, det : SUBSET (1..MaxList),
                     flag : BOOLEAN] :
                /\ e.det \subseteq 1..e.n
                /\ ~e.ok => e.n = 0 }
        a == req.action
        searches == a \in {"SEARCH_EMAILS", "LIST_UNREAD", "FIND_CONTACT", "SEARCH_FILES",
                           "LIST_TASKS", "SEARCH_EVENTS", "CANCEL_ALL_DAY"}
                    \/ (a \in {"DELETE_EMAIL"} /\ req.id = 0)
                    \/ (a \in {"UPDATE_CONTACT", "DELETE_CONTACT", "DELETE_FILE"}
                        /\ req.id = 0 /\ req.name)
                    \/ (a \in {"COMPLETE_TASK", "DELETE_TASK"} /\ req.id = 0 /\ req.name)
                    \/ a \in {"UPDATE_EVENT", "DELETE_EVENT"}
        direct == req.id # 0
                  /\ a \in {"UPDATE_CONTACT", "DELETE_CONTACT", "DELETE_FILE",
                             "COMPLETE_TASK", "DELETE_TASK"}
        subset == a \in {"SEARCH_EMAILS", "LIST_UNREAD", "LIST_TASKS"}
                  \/ (a = "DELETE_EMAIL" /\ req.id = 0)
        flagged == a \in {"CREATE_EVENT", "UPDATE_EVENT", "DELETE_EVENT"}
    IN  { e \in Envs :
            /\ ~searches => (e.n = 0 /\ (direct \/ e.ok))
            /\ ~subset => e.det = {}
            /\ ~flagged => ~e.flag }

\* the items of 1..n that are in det, in order
RECURSIVE Kept(_, _)
Kept(n, det) ==
    IF n = 0 THEN <<>>
    ELSE IF n \in det THEN Append(Kept(n - 1, det), n) ELSE Kept(n - 1, det)

\* for i, item in enumerate(items, 1): the number displayed with each item
Numbered(items) == [i \in 1..Len(items) |-> [num |-> i, item |-> items[i]]]

(***************************************************************************)
(* The outcome of a service's handle_action: as Eff, with the prompt the   *)
(* handler composed and whether the returned result carries a 'message'.   *)
(***************************************************************************)
SEff(f, d, r, pr, sent, calls, msg) ==
    [fsm |-> f, data |-> d, res |-> r, prompt |-> pr, sent |-> sent,
     calls |-> calls, msg |-> msg, raised |-> FALSE]

\* return {'success': ..., 'message': ...} and nothing else
Answer(f, d, r, pr) == SEff(f, d, r, pr, <<>>, <<>>, TRUE)
\* `return result` of a failed make_api_call: it has 'error' and no 'message'
Bare(f, d, r, pr) == SEff(f, d, r, pr, <<>>, <<>>, FALSE)
\* a collaborator operation, then a result with a message
Direct(f, d, r, pr, call) == SEff(f, d, r, pr, <<>>, <<call>>, TRUE)
\* a collaborator operation, then a message on success and `return result` otherwise
Relay(f, d, r, pr, call, ok) == SEff(f, d, r, pr, <<>>, <<call>>, ok)

SelectPrompt(svc, shown, range) ==
    [service |-> svc, shown |-> shown, range |-> range, delivered |-> FALSE]


(***************************************************************************)
(* GmailService                                                            *)
(***************************************************************************)
\* handle_search_emails (also behind handle_list_unread)
handle_search_emails(f, d, r, pr, req, env) ==
    IF ~env.ok \/ env.n = 0 THEN Answer(f, d, r, pr)
    ELSE Answer(f, d, Stored(Kept(env.n, env.det)), pr)

\* handle_delete_email
handle_delete_email(f, d, r, pr, req, env) ==
    LET shownMsgs == Kept(IF env.n < GmailDisplayMax THEN env.n ELSE GmailDisplayMax,
                          env.det)
        email_list == shownMsgs
        shown == [i \in 1..Len(shownMsgs) |->
                     [num |-> shownMsgs[i], item |-> shownMsgs[i]]]
        range == IF Len(email_list) = 1 THEN <<1, 1>> ELSE <<1, Len(email_list)>>
    IN  IF req.id # 0 THEN Direct(f, d, r, pr, Call("gmail", "delete", req.id, ""))
        ELSE IF ~env.ok \/ env.n = 0 THEN Answer(f, d, r, pr)
        ELSE SEff("selecting_email", update_data(d, "action" :> "delete"),
                  Stored(email_list),
                  [SelectPrompt("gmail", shown, range) EXCEPT !.delivered = TRUE],
                  <<"prompt_select">>, <<>>, FALSE)

\* handle_read_email
handle_read_email(f, d, r, pr, req, env) ==
    IF req.id # 0 THEN Direct(f, d, r, pr, Call("gmail", "read", req.id, ""))
    ELSE IF r.has /\ r.items # <<>> THEN
        SEff("selecting_email", update_data(d, "action" :> "read"), r,
             SelectPrompt("gmail", Numbered(Take(r.items, GmailDisplayMax)), <<>>),
             <<>>, <<>>, TRUE)
    ELSE Answer(f, d, r, pr)

gmail_handle_action(f, d, r, pr, req, env) ==
    CASE req.action \in {"SEARCH_EMAILS", "LIST_UNREAD"} ->
            handle_search_emails(f, d, r, pr, req, env)
      [] req.action = "DELETE_EMAIL" -> handle_delete_email(f, d, r, pr, req, env)
      [] req.action = "READ_EMAIL" -> handle_read_email(f, d, r, pr, req, env)
      [] OTHER -> Answer(f, d, r, pr)

(***************************************************************************)
(* ContactsService                                                         *)
(***************************************************************************)
\* handle_find_contact
handle_find_contact(f, d, r, pr, req, env) ==
    IF ~req.name THEN Answer(f, d, r, pr)
    ELSE IF ~env.ok THEN Bare(f, d, r, pr)
    ELSE IF env.n = 0 THEN Answer(f, d, r, pr)
    ELSE Answer(f, d, Stored(Take(UpTo(env.n), ContactsSearchMax)), pr)

\* handle_add_contact
handle_add_contact(f, d, r, pr, req, env) ==
    IF ~req.name THEN Answer(f, d, r, pr)
    ELSE SEff("confirming_action",
              update_data(d, ("service" :> "contacts") @@ ("action" :> "create")
                             @@ ("params" :> [NoParams EXCEPT !.tag = "contact_data"])),
              r, pr, <<"prompt_confirm">>, <<>>, FALSE)

\* handle_update_contact
handle_update_contact(f, d, r, pr, req, env) ==
    LET contacts == UpTo(env.n)
    IN  IF req.id # 0
        THEN Relay(f, d, r, pr, Call("contacts", "update", req.id, ""), env.ok)
        ELSE IF ~req.name THEN Answer(f, d, r, pr)
        ELSE IF ~env.ok \/ env.n = 0 THEN Answer(f, d, r, pr)
        ELSE IF Len(contacts) = 1
        THEN Direct(f, d, r, pr, Call("contacts", "update", contacts[1], ""))
        ELSE SEff("selecting_contact",
                  update_data(d, ("service" :> "contacts") @@ ("action" :> "update")
                                 @@ ("params" :> [NoParams EXCEPT !.tag = "update_fields"])),
                  Stored(Take(contacts, ShortDisplayMax)),
                  [SelectPrompt("contacts", Numbered(Take(contacts, ShortDisplayMax)), <<>>)
                      EXCEPT !.delivered = TRUE],
                  <<"prompt_select">>, <<>>, FALSE)

\* handle_delete_contact
handle_delete_contact(f, d, r, pr, req, env) ==
    LET contacts == UpTo(env.n)
    IN  IF req.id # 0
        THEN Relay(f, d, r, pr, Call("contacts", "delete", req.id, ""), env.ok)
        ELSE IF ~req.name THEN Answer(f, d, r, pr)
        ELSE IF ~env.ok \/ env.n = 0 THEN Answer(f, d, r, pr)
        ELSE IF Len(contacts) = 1
        THEN SEff("confirming_action",
                  update_data(d, ("service" :> "contacts") @@ ("action" :> "delete")
                                 @@ ("params" :> [NoParams EXCEPT !.tag = "contact_id",
                                                                  !.id = contacts[1]])),
                  r, pr, <<"prompt_confirm">>, <<>>, FALSE)
        ELSE SEff("selecting_contact",
                  update_data(d, ("service" :> "contacts") @@ ("action" :> "delete")),
                  Stored(Take(contacts, ShortDisplayMax)),
                  [SelectPrompt("contacts", Numbered(Take(contacts, ShortDisplayMax)), <<>>)
                      EXCEPT !.delivered = TRUE],
                  <<"prompt_select">>, <<>>, FALSE)

contacts_handle_action(f, d, r, pr, req, env) ==
    CASE req.action = "FIND_CONTACT" -> handle_find_contact(f, d, r, pr, req, env)
      [] req.action = "ADD_CONTACT" -> handle_add_contact(f, d, r, pr, req, env)
      [] req.action = "UPDATE_CONTACT" -> handle_update_contact(f, d, r, pr, req, env)
      [] req.action = "DELETE_CONTACT" -> handle_delete_contact(f, d, r, pr, req, env)
      [] OTHER -> Answer(f, d, r, pr)

(***************************************************************************)
(* DriveService                                                            *)
(***************************************************************************)
\* handle_search_files
handle_search_files(f, d, r, pr, req, env) ==
    IF ~env.ok THEN Bare(f, d, r, pr)
    ELSE IF env.n = 0 THEN Answer(f, d, r, pr)
    ELSE Answer(f, d, Stored(Take(UpTo(env.n), DriveSearchMax)), pr)

\* handle_create_folder
handle_create_folder(f, d, r, pr, req, env) ==
    SEff("confirming_action",
         update_data(d, ("service" :> "drive") @@ ("action" :> "create_folder")
                        @@ ("params" :> [NoParams EXCEPT !.tag = "folder"])),
         r, pr, <<"prompt_confirm">>, <<>>, FALSE)

\* handle_share_file
handle_share_file(f, d, r, pr, req, env) ==
    IF req.id = 0 THEN
        IF r.has THEN
            SEff("selecting_file",
                 update_data(d, ("service" :> "drive") @@ ("action" :> "share")
                                @@ ("params" :> [NoParams EXCEPT !.tag = "share",
                                                                 !.email = req.email,
                                                                 !.role = req.role])),
                 r,
                 [SelectPrompt("drive", Numbered(Take(r.items, ShortDisplayMax)), <<>>)
                     EXCEPT !.delivered = TRUE],
                 <<"prompt_select">>, <<>>, FALSE)
        ELSE Answer(f, d, r, pr)
    ELSE SEff("confirming_share",
              update_data(d, ("service" :> "drive") @@ ("action" :> "share_confirm")
                             @@ ("params" :> [NoParams EXCEPT !.tag = "share",
                                                              !.id = req.id,
                                                              !.email = req.email,
                                                              !.role = req.role])),
              r, pr, <<"prompt_confirm">>, <<>>, FALSE)

\* handle_delete_file
handle_delete_file(f, d, r, pr, req, env) ==
    LET files == UpTo(env.n)
    IN  IF req.id # 0
        THEN Relay(f, d, r, pr, Call("drive", "delete", req.id, ""), env.ok)
        ELSE IF ~req.name THEN Answer(f, d, r, pr)
        ELSE IF ~env.ok \/ env.n = 0 THEN Answer(f, d, r, pr)
        ELSE IF Len(files) = 1
        THEN SEff("confirming_action",
                  update_data(d, ("service" :> "drive") @@ ("action" :> "delete")
                                 @@ ("params" :> [NoParams EXCEPT !.tag = "file_id",
                                                                  !.id = files[1]])),
                  r, pr, <<"prompt_confirm">>, <<>>, FALSE)
        ELSE SEff("selecting_file",
                  update_data(d, ("service" :> "drive") @@ ("action" :> "delete")),
                  Stored(Take(files, ShortDisplayMax)),
                  [SelectPrompt("drive", Numbered(Take(files, ShortDisplayMax)), <<>>)
                      EXCEPT !.delivered = TRUE],
                  <<"prompt_select">>, <<>>, FALSE)

drive_handle_action(f, d, r, pr, req, env) ==
    CASE req.action = "SEARCH_FILES" -> handle_search_files(f, d, r, pr, req, env)
      [] req.action = "CREATE_FOLDER" -> handle_create_folder(f, d, r, pr, req, env)
      [] req.action = "SHARE_FILE" -> handle_share_file(f, d, r, pr, req, env)
      [] req.action = "DELETE_FILE" -> handle_delete_file(f, d, r, pr, req, env)
      [] OTHER -> Answer(f, d, r, pr)

(***************************************************************************)
(* TasksService                                                            *)
(***************************************************************************)
\* handle_add_task
handle_add_task(f, d, r, pr, req, env) ==
    SEff("confirming_action",
         update_data(d, ("service" :> "tasks") @@ ("action" :> "create")
                        @@ ("params" :> [NoParams EXCEPT !.tag = "task"])),
         r, pr, <<"prompt_confirm">>, <<>>, FALSE)

\* handle_list_tasks: only the tasks that are not completed are stored
handle_list_tasks(f, d, r, pr, req, env) ==
    IF ~env.ok THEN Bare(f, d, r, pr)
    ELSE IF env.n = 0 THEN Answer(f, d, r, pr)
    ELSE Answer(f, d, Stored(Kept(env.n, env.det)), pr)

\* the selection branch shared by handle_complete_task and handle_delete_task
task_select(f, d, r, pr, action) ==
    IF r.has THEN
        SEff("selecting_task",
             update_data(d, ("service" :> "tasks") @@ ("action" :> action)),
             r,
             [SelectPrompt("tasks", Numbered(Take(r.items, TasksDisplayMax)), <<>>)
                 EXCEPT !.delivered = TRUE],
             <<"prompt_select">>, <<>>, FALSE)
    ELSE Answer(f, d, r, pr)

\* handle_complete_task
handle_complete_task(f, d, r, pr, req, env) ==
    IF req.id # 0
    THEN Relay(f, d, r, pr, Call("tasks", "complete", req.id, ""), env.ok)
    ELSE IF ~req.name THEN task_select(f, d, r, pr, "complete")
    ELSE IF ~env.ok \/ env.n = 0 THEN Answer(f, d, r, pr)
    ELSE Direct(f, d, r, pr, Call("tasks", "complete", 1, ""))

\* handle_delete_task
handle_delete_task(f, d, r, pr, req, env) ==
    IF req.id # 0
    THEN Relay(f, d, r, pr, Call("tasks", "delete", req.id, ""), env.ok)
    ELSE IF ~req.name THEN task_select(f, d, r, pr, "delete")
    ELSE IF ~env.ok \/ env.n = 0 THEN Answer(f, d, r, pr)
    ELSE SEff("confirming_action",
              update_data(d, ("service" :> "tasks") @@ ("action" :> "delete_confirm")
                             @@ ("params" :> [NoParams EXCEPT !.tag = "task_id",
                                                              !.id = 1])),
              r, pr, <<"prompt_confirm">>, <<>>, FALSE)

tasks_handle_action(f, d, r, pr, req, env) ==
    CASE req.action = "ADD_TASK" -> handle_add_task(f, d, r, pr, req, env)
      [] req.action = "LIST_TASKS" -> handle_list_tasks(f, d, r, pr, req, env)
      [] req.action = "COMPLETE_TASK" -> handle_complete_task(f, d, r, pr, req, env)
      [] req.action = "DELETE_TASK" -> handle_delete_task(f, d, r, pr, req, env)
      [] OTHER -> Answer(f, d, r, pr)

(***************************************************************************)
(* CalendarService                                                         *)
(***************************************************************************)
\* _find_event_for_update: by id, else by title, else the first stored result;
\* 0 stands for None
_find_event_for_update(r, req, env) ==
    IF req.id # 0 /\ env.ok THEN req.id
    ELSE IF req.name /\ env.n > 0 THEN 1
    ELSE IF r.has /\ r.items # <<>> THEN r.items[1]
    ELSE 0

\* handle_create_event
handle_create_event(f, d, r, pr, req, env) ==
    IF env.flag THEN
        SEff("confirming_action",
             update_data(d, ("service" :> "calendar")
                            @@ ("action" :> "create_with_conflicts")
                            @@ ("event_data" :> "event") @@ ("conflicts" :> "conflicts")),
             r, pr, <<"prompt_confirm">>, <<>>, FALSE)
    ELSE Direct(f, d, r, pr, Call("calendar", "create", 0, ""))

\* handle_search_events
handle_search_events(f, d, r, pr, req, env) ==
    IF ~env.ok \/ env.n = 0 THEN Answer(f, d, r, pr)
    ELSE Answer(f, d, Stored(UpTo(env.n)), pr)

\* handle_update_event
handle_update_event(f, d, r, pr, req, env) ==
    LET event == _find_event_for_update(r, req, env)
    IN  IF event = 0 THEN Answer(f, d, r, pr)
        ELSE IF env.flag THEN
            SEff("confirming_action",
                 update_data(d, ("service" :> "calendar")
                                @@ ("action" :> "update_with_conflicts")
                                @@ ("event_id" :> event) @@ ("update_data" :> "update")
                                @@ ("conflicts" :> "conflicts")),
                 r, pr, <<"prompt_confirm">>, <<>>, FALSE)
        ELSE Direct(f, d, r, pr, Call("calendar", "update", event, ""))

\* handle_delete_event
handle_delete_event(f, d, r, pr, req, env) ==
    LET event == _find_event_for_update(r, req, env)
    IN  IF event = 0 THEN Answer(f, d, r, pr)
        ELSE IF env.flag THEN
            SEff("confirming_action",
                 update_data(d, ("service" :> "calendar")
                                @@ ("action" :> "delete_with_attendees")
                                @@ ("event_id" :> event) @@ ("event_title" :> "title")),
                 r, pr, <<"prompt_confirm">>, <<>>, FALSE)
        ELSE Direct(f, d, r, pr, Call("calendar", "delete", event, ""))

\* handle_cancel_all_day
handle_cancel_all_day(f, d, r, pr, req, env) ==
    IF ~env.ok \/ env.n = 0 THEN Answer(f, d, r, pr)
    ELSE SEff("confirming_action",
              update_data(d, ("service" :> "calendar") @@ ("action" :> "cancel_all_day")
                             @@ ("date" :> "date") @@ ("event_ids" :> UpTo(env.n))),
              r, pr, <<"prompt_confirm">>, <<>>, FALSE)

calendar_handle_action(f, d, r, pr, req, env) ==
    CASE req.action = "CREATE_EVENT" -> handle_create_event(f, d, r, pr, req, env)
      [] req.action = "SEARCH_EVENTS" -> handle_search_events(f, d, r, pr, req, env)
      [] req.action = "UPDATE_EVENT" -> handle_update_event(f, d, r, pr, req, env)
      [] req.action = "DELETE_EVENT" -> handle_delete_event(f, d, r, pr, req, env)
      [] req.action = "CANCEL_ALL_DAY" -> handle_cancel_all_day(f, d, r, pr, req, env)
      [] OTHER -> Answer(f, d, r, pr)

handle_action(f, d, r, pr, req, env) ==
    CASE req.service = "gmail" -> gmail_handle_action(f, d, r, pr, req, env)
      [] req.service = "contacts" -> contacts_handle_action(f, d, r, pr, req, env)
      [] req.service = "drive" -> drive_handle_action(f, d, r, pr, req, env)
      [] req.service = "tasks" -> tasks_handle_action(f, d, r, pr, req, env)
      [] req.service = "calendar" -> calendar_handle_action(f, d, r, pr, req, env)

(***************************************************************************)
(* execute_service_action: one iteration of                                *)
(*   for action in response.get('actions', []):                            *)
(*       await self.execute_service_action(action, message, state)         *)
(***************************************************************************)
skip_actions == {"DELETE_EMAIL", "SEARCH_EMAILS", "LIST_UNREAD"}

execute_unchecked(f, d, r, req, env) == handle_action(f, d, r, NoPrompt, req, env)
execute_service_action(f, d, r, req, env) ==
    LET e == handle_action(f, d, r, NoPrompt, req, env)
        relayed == e.msg /\ e.fsm = IDLE /\ req.action \notin skip_actions
    IN  IF req.service \notin services
        THEN SEff(f, d, r, NoPrompt, <<"not_available">>, <<>>, FALSE)
        ELSE [e EXCEPT !.sent = IF relayed THEN e.sent \o <<"result">> ELSE e.sent,
                       !.prompt = IF e.prompt.service # "none" /\ e.msg /\ relayed
                                  THEN [e.prompt EXCEPT !.delivered = TRUE]
                                  ELSE e.prompt]

ExecuteServiceAction(u) ==
    /\ u \in users /\ remaining[u] > 0
    /\ \E req \in Requests :
        \E env \in EnvsFor(req) :
          LET e == execute_service_action(fsm[u], data[u],
                                          search_results[req.service][u], req, env)
          IN  /\ fsm' = [fsm EXCEPT ![u] = e.fsm]
              /\ data' = [data EXCEPT ![u] = e.data]
              /\ search_results' = [search_results EXCEPT ![req.service][u] = e.res]
              /\ prompt' = e.prompt
              /\ remaining' = [remaining EXCEPT ![u] = remaining[u] - 1]
              /\ last' = [Step(u, req.action, <<>>, e.sent, e.calls, FALSE)
                             EXCEPT !.req = req]
              /\ UNCHANGED <<aux, services, users>>

(***************************************************************************)
(* handle_message (F.text): reached when no state handler matches.         *)
(***************************************************************************)
\* the FSM states that have a StateFilter handler of their own
HandledStates ==
    {"selecting_email", "composing_email", "selecting_event", "selecting_file",
     "selecting_contact", "selecting_task", "confirming_action"}

\* A variant of the guard that never sees a state.
no_current_state(f) == FALSE

\* current_state = await state.get_state(); if current_state: ...
current_state(f) == f # IDLE

HandleMessage(u) ==
    /\ u \in users /\ remaining[u] = 0
    /\ fsm[u] \notin HandledStates
    /\ prompt' = NoPrompt
    /\ IF current_state(fsm[u])
       THEN /\ \E text \in Replies :
                 last' = Step(u, "message", text, <<"busy">>, <<>>, FALSE)
            /\ UNCHANGED <<aux, services, users, fsm, data, search_results, remaining>>
       ELSE \E k \in 0..MaxActions, aitext \in BOOLEAN, out \in {"ok", "raise"} :
              /\ remaining' = [remaining EXCEPT ![u] = IF out = "raise" THEN 0 ELSE k]
              /\ last' = Step(u, "message", <<>>,
                              IF out = "raise" THEN <<"error">>
                              ELSE IF aitext THEN <<"ai_text">> ELSE <<>>,
                              <<>>, FALSE)
              \* the except branch clears a session that is already idle
              /\ UNCHANGED <<aux, services, users, fsm, data, search_results>>

Next ==
    \E u \in AllUsers :
        \/ HandleCommands(u)
        \/ HandleEmailSelection(u)
        \/ HandleFileSelection(u)
        \/ HandleContactSelection(u)
        \/ HandleTaskSelection(u)
        \/ HandleConfirmation(u)
        \/ HandleMessage(u)
        \/ ExecuteServiceAction(u)

Spec == Init /\ [][Next]_vars

(***************************************************************************)
(* Vocabulary of the properties.                                           *)
(***************************************************************************)
\* the selection states a service handler enters, and the handler of each
SelectionStates ==
    {"selecting_email", "selecting_file", "selecting_contact", "selecting_task"}

\* the service whose search_results the handler of a selection state reads
SelectionService(st) ==
    CASE st = "selecting_email" -> "gmail"
      [] st = "selecting_file" -> "drive"
      [] st = "selecting_contact" -> "contacts"
      [] st = "selecting_task" -> "tasks"

\* the pending states a service handler can put a user into
PendingStates == SelectionStates \cup {"confirming_action", "confirming_share"}

\* the index the handler of a selection state resolves a reply to
Resolved(st, text, n) ==
    IF st = "selecting_email" THEN EmailChoice(Normalize(text), n)
    ELSE DigitChoice(Normalize(text))

\* the step answers a reply of user u (not a command, not a translated action)
ReplyStep(u) == last'.user = u /\ last'.text \in Replies

\* w is one of the space-separated words of t
HasWord(w, t) ==
    \E i \in 1..Len(t) :
        /\ i + Len(w) - 1 <= Len(t)
        /\ SubSeq(t, i, i + Len(w) - 1) = w
        /\ (i = 1 \/ t[i - 1] = " ")
        /\ (i + Len(w) - 1 = Len(t) \/ t[i + Len(w)] = " ")

(***************************************************************************)
(* C1.  In every selection state with a stored candidate list of length N, *)
(* a reply causes a collaborator dispatch only if it resolves to an index  *)
(* i with 1 <= i <= N; every other reply that is not a cancellation sends  *)
(* a reprompt and leaves the FSM state, its data and the candidate list    *)
(* unchanged.                                                              *)
(***************************************************************************)
C1_OnlyInRangeRepliesDispatch ==
    [][ \A u \in users :
          (fsm[u] \in SelectionStates /\ ReplyStep(u)) =>
            LET st == fsm[u]
                N == Len(search_results[SelectionService(st)][u].items)
                i == Resolved(st, last'.text, N)
            IN  /\ last'.calls # <<>> => InRange(i, N)
                /\ (~AnyWordIn(CancelWords, Normalize(last'.text)) /\ ~InRange(i, N)) =>
                      /\ last'.sent = <<"reprompt">>
                      /\ fsm'[u] = fsm[u]
                      /\ data'[u] = data[u]
                      /\ search_results' = search_results ]_vars

(***************************************************************************)
(* C2.  In every pending state a service handler can put a user into, a    *)
(* reply that is one of the words cancel, stop, nevermind, back moves the  *)
(* session to IDLE, discards the pending data and dispatches nothing.      *)
(***************************************************************************)
C2_CancelWordsAlwaysCancel ==
    [][ \A u \in users :
          (fsm[u] \in PendingStates /\ ReplyStep(u)
             /\ Normalize(last'.text) \in CancelWords) =>
            /\ fsm'[u] = IDLE
            /\ data'[u] = EmptyData
            /\ last'.calls = <<>> ]_vars

(***************************************************************************)
(* C3.  If a collaborator call raises while a resolved pending interaction *)
(* is dispatched, the user is sent a failure message and the session ends  *)
(* in IDLE: no exception path leaves the pending state set.                *)
(***************************************************************************)
C3_RaisingDispatchEndsIdle ==
    last.raised => (last.sent = <<"error">> /\ fsm[last.user] = IDLE)

(***************************************************************************)
(* C4.  For every confirmation interaction a service handler creates, an   *)
(* affirmative reply invokes the corresponding collaborator operation      *)
(* exactly once and then returns the session to IDLE.                      *)
(***************************************************************************)
C4_AffirmativeReplyDispatchesOnce ==
    [][ \A u \in users :
          (fsm[u] = "confirming_action" /\ ReplyStep(u)
             /\ Normalize(last'.text) = T_yes /\ ~last'.raised) =>
            /\ Len(last'.calls) = 1
            /\ last'.calls[1].svc = data[u]["service"]
            /\ fsm'[u] = IDLE ]_vars

(***************************************************************************)
(* C5.  In confirming_action, a reply that matches the negative word set   *)
(* (no, n, cancel, stop, nevermind) never causes a collaborator call: the  *)
(* interaction is discarded and the session returns to IDLE.               *)
(***************************************************************************)
C5_NegativeReplyNeverDispatches ==
    [][ \A u \in users :
          (fsm[u] = "confirming_action" /\ ReplyStep(u)
             /\ \E w \in NegativeWords : HasWord(w, Normalize(last'.text))) =>
            /\ last'.calls = <<>>
            /\ fsm'[u] = IDLE
            /\ data'[u] = EmptyData ]_vars

C7_NewInteractionReplacesOld ==
    [][ \A u \in users :
          (/\ fsm[u] \in PendingStates
           /\ last'.user = u /\ remaining'[u] = remaining[u] - 1
           /\ fsm'[u] \in PendingStates
           /\ \/ last'.sent \in {<<"prompt_select">>, <<"prompt_confirm">>}
              \/ prompt'.service # "none") =>
            \E req \in Requests :
                /\ req.action = last'.handler
                /\ \E env \in EnvsFor(req) :
                      LET e == handle_action(IDLE, EmptyData,
                                             search_results[req.service][u],
                                             NoPrompt, req, env)
                      IN  e.fsm = fsm'[u] /\ e.data = data'[u] ]_vars

(***************************************************************************)
(* C8.  Whenever a service handler moves a user into a selection state,    *)
(* the candidate list stored for that user and service is non-empty at     *)
(* that moment (with no usable candidate the session stays IDLE).          *)
(***************************************************************************)
C8_SelectionListNonEmpty ==
    (prompt.service # "none" /\ fsm[last.user] \in SelectionStates) =>
        search_results[prompt.service][last.user].items # <<>>

(***************************************************************************)
(* C9.  For every selection prompt, the numbers shown are 1..N in the      *)
(* order of the stored candidate list, the candidate shown with number i   *)
(* is the one at position i of the stored list, and the range named in the *)
(* prompt equals the set of numbers displayed.                             *)
(***************************************************************************)
C9_DisplayedNumbersAreListPositions ==
    prompt.service # "none" =>
        LET items == search_results[prompt.service][last.user].items
        IN  /\ prompt.shown = Numbered(items)
            /\ prompt.range # <<>> =>
                  (prompt.range[1]..prompt.range[2])
                      = {prompt.shown[i].num : i \in DOMAIN prompt.shown}

(***************************************************************************)
(* C10.  In selecting_email, the index a reply resolves to is the number   *)
(* the reply names (an explicit digit string d names d, otherwise a number *)
(* word names its value): a reply naming k is dispatched against the k-th  *)
(* candidate and no other.                                                 *)
(***************************************************************************)
C10_ReplyNamingKSelectsKth ==
    [][ \A u \in users :
          (fsm[u] = "selecting_email" /\ ReplyStep(u) /\ last'.calls # <<>>) =>
            LET txt == Normalize(last'.text)
                items == search_results["gmail"][u].items
                k == IF (\E i \in 1..Len(txt) : IsDigit(txt[i])) THEN FirstNumber(txt) ELSE NumberWordChoice(txt)
            IN  k # 0 => (InRange(k, Len(items)) /\ last'.calls[1].id = items[k]) ]_vars

(***************************************************************************)
(* C11.  In any selection state, the affirmative reply "yes" (which names  *)
(* no number) resolves to index 1 and dispatches against the only          *)
(* candidate if and only if the stored list has exactly one element; with  *)
(* two or more candidates it does not dispatch.                            *)
(***************************************************************************)
C11_YesSelectsTheOnlyCandidate ==
    [][ \A u \in users :
          (fsm[u] \in SelectionStates /\ ReplyStep(u)
             /\ Normalize(last'.text) = T_yes
             /\ Get(data[u], "action", "delete") # "update") =>
            LET items == search_results[SelectionService(fsm[u])][u].items
            IN  /\ Len(items) = 1 =>
                      (Len(last'.calls) = 1 /\ last'.calls[1].id = items[1])
                /\ Len(items) >= 2 => last'.calls = <<>> ]_vars

StateCancelWords(st) ==
    IF st = "selecting_email" THEN EmailCancelWords ELSE SelectCancelWords

(***************************************************************************)
(* C13.  If a reply that holds none of the handler's cancel words arrives  *)
(* in a selection state while the user's stored candidate list for that    *)
(* service is missing or empty, no service operation is called, the user   *)
(* is told to search again, and the session is IDLE and nothing raised.    *)
(***************************************************************************)
C13_EmptyListExpiresSession ==
    [][ \A u \in users :
          (/\ fsm[u] \in SelectionStates /\ ReplyStep(u)
           /\ search_results[SelectionService(fsm[u])][u].items = <<>>
           /\ ~AnyWordIn(StateCancelWords(fsm[u]), Normalize(last'.text))) =>
             /\ last'.calls = <<>>
             /\ last'.sent = <<"expired">>
             /\ fsm'[u] = IDLE
             /\ ~last'.raised ]_vars

\* C13 as first stated, for every reply: a reply in a selection state with
\* no stored candidates is always answered with the request to search again
C13_AnyReplyOnEmptyListExpires ==
    [][ \A u \in users :
          (/\ fsm[u] \in SelectionStates /\ ReplyStep(u)
           /\ search_results[SelectionService(fsm[u])][u].items = <<>>) =>
             /\ last'.calls = <<>>
             /\ last'.sent = <<"expired">>
             /\ fsm'[u] = IDLE
             /\ ~last'.raised ]_vars

\* a number was answered to an empty e-mail list and the session expired
C13_Witness ==
    /\ last.handler = "email_selection"
    /\ last.text = T_1
    /\ last.sent = <<"expired">>
    /\ last.calls = <<>>
    /\ fsm[last.user] = IDLE


\* the handler aiogram runs for a text message that is not a command, by
\* the state of the session: the StateFilter handler of the state, or else
\* the general handler
StateHandler(st) ==
    CASE st = "selecting_email" -> "email_selection"
      [] st = "selecting_file" -> "file_selection"
      [] st = "selecting_contact" -> "contact_selection"
      [] st = "selecting_task" -> "task_selection"
      [] st = "confirming_action" -> "confirmation"
      [] OTHER -> "message"

C15_PendingStateIsPrompted ==
    [][ \A u \in users :
          (/\ remaining[u] > 0 /\ last'.user = u
           /\ fsm[u] = IDLE /\ fsm'[u] \in PendingStates) =>
             \E i \in 1..Len(last'.sent) :
                 last'.sent[i] \in {"prompt_select", "prompt_confirm"} ]_vars


(***************************************************************************)
(* C16.  Whenever an action of an enabled service is about to be executed, *)
(* if the service's handler returns an outcome that carries a message and  *)
(* the session is IDLE after the call, execute_service_action sends that   *)
(* message to the user, for every service and every action verb.          *)
(***************************************************************************)
C16_ReturnedMessageIsRelayed ==
    \A u \in users :
        remaining[u] > 0 =>
          \A req \in Requests :
            \A env \in EnvsFor(req) :
              LET r == search_results[req.service][u]
                  h == handle_action(fsm[u], data[u], r, NoPrompt, req, env)
                  e == execute_service_action(fsm[u], data[u], r, req, env)
              IN  (req.service \in services /\ h.msg /\ h.fsm = IDLE) =>
                      \E i \in 1..Len(e.sent) : e.sent[i] = "result"


(***************************************************************************)
(* Handler tasks.  The bot is built as Dispatcher(storage=MemoryStorage()) *)
(* and run with dp.start_polling(self.bot): no events isolation is passed  *)
(* and no handler takes a lock, so the handling of one update of a user    *)
(* is a task of its own that runs until it awaits the network, and the     *)
(* task of the user's next update can run in between.  A selection handler *)
(* awaits the network when it calls the service (aiohttp, in               *)
(* BaseService.make_api_call) and when it answers the user; only after     *)
(* these awaits does it pop the stored results and clear the state.        *)
(* SpecTasks follows the tasks of two updates of one user from a pending   *)
(* selection.                                                              *)
(***************************************************************************)
\* The session starts in one of the pending selections the service handlers
\* leave behind: the state, the stored data, and stored results of n candidates.
InitTasks ==
    \E n \in 1..MaxList :
      \E p \in
        { [st |-> "selecting_email", d |-> ("action" :> "delete"), r |-> Stored(UpTo(n))],
          [st |-> "selecting_email", d |-> ("action" :> "read"), r |-> Stored(UpTo(n))],
          [st |-> "selecting_file",
           d |-> ("service" :> "drive") @@ ("action" :> "delete"), r |-> Stored(UpTo(n))],
          [st |-> "selecting_contact",
           d |-> ("service" :> "contacts") @@ ("action" :> "delete"),
           r |-> Stored(UpTo(n))],
          [st |-> "selecting_task",
           d |-> ("service" :> "tasks") @@ ("action" :> "complete"),
           r |-> Stored(UpTo(n))] } :
        /\ services = {SelectionService(p.st)}
        /\ users = {"u1"}
        /\ fsm = [u \in AllUsers |-> IF u = "u1" THEN p.st ELSE IDLE]
        /\ data = [u \in AllUsers |-> IF u = "u1" THEN p.d ELSE EmptyData]
        /\ search_results =
             [s \in Services |-> [u \in AllUsers |->
                 IF s = SelectionService(p.st) /\ u = "u1" THEN p.r ELSE NoResults]]
        /\ remaining = [u \in AllUsers |-> 0]
        /\ prompt = NoPrompt
        /\ last = Step("none", "none", <<>>, <<>>, <<>>, FALSE)
        /\ inflight = NoTasks
        /\ dispatched = <<>>
        /\ translation = NoTranslation
        /\ conversations = [u \in AllUsers |-> <<>>]
        /\ context = <<>>
        /\ clock = 0

\* polling receives a reply of the user and creates the task that handles it
Deliver(t) ==
    /\ inflight[t].pc = "none"
    /\ \E text \in Replies :
          inflight' = [inflight EXCEPT ![t] = [NoTask EXCEPT !.pc = "queued", !.text = text]]
    /\ UNCHANGED <<conversations, context, clock,
                   services, users, fsm, data, search_results, remaining, prompt,
                   last, dispatched, translation>>

\* The task runs: the state filters pick the handler by the state stored now,
\* and the handler runs up to its first await of the network.  A selection
\* handler has by then read the stored results, resolved the reply and
\* started the service call; an idle session sends the reply to
\* handle_message.
Begin(t) ==
    /\ inflight[t].pc = "queued"
    /\ IF fsm["u1"] \in SelectionStates
       THEN \E out \in Outcomes :
              LET st == fsm["u1"]
                  r == search_results[SelectionService(st)]["u1"]
                  d == data["u1"]
                  text == inflight[t].text
                  e == CASE st = "selecting_email" -> email_selection(st, d, r, text, out)
                         [] st = "selecting_file" -> file_selection(st, d, r, text, out)
                         [] st = "selecting_contact" ->
                                contact_selection(st, d, r, text, out)
                         [] st = "selecting_task" -> task_selection(st, d, r, text, out)
              IN  /\ dispatched' = dispatched \o e.calls
                  /\ inflight' = [inflight EXCEPT ![t] =
                                    [pc |-> "awaiting", text |-> inflight[t].text,
                                     clears |-> e.fsm = IDLE,
                                     pops |-> IF e.res = NoResults
                                              THEN SelectionService(st)
                                              ELSE "none"]]
       ELSE /\ inflight' = [inflight EXCEPT ![t].pc = "done"]
            /\ UNCHANGED dispatched
    /\ UNCHANGED <<conversations, context, clock,
                   services, users, fsm, data, search_results, remaining, prompt,
                   last, translation>>

\* The awaits return and the handler finishes:
\* <service>.search_results.pop(user_id, None); await state.clear()
End(t) ==
    /\ inflight[t].pc = "awaiting"
    /\ inflight' = [inflight EXCEPT ![t].pc = "done"]
    /\ IF inflight[t].clears
       THEN /\ fsm' = [fsm EXCEPT !["u1"] = IDLE]
            /\ data' = [data EXCEPT !["u1"] = EmptyData]
       ELSE UNCHANGED <<fsm, data>>
    /\ search_results' =
         [s \in Services |-> [u \in AllUsers |->
             IF s = inflight[t].pops /\ u = "u1"
             THEN NoResults ELSE search_results[s][u]]]
    /\ UNCHANGED <<conversations, context, clock,
                   services, users, remaining, prompt, last, dispatched, translation>>

NextTasks == \E t \in TaskIds : Deliver(t) \/ Begin(t) \/ End(t)

SpecTasks == InitTasks /\ [][NextTasks]_vars

(***************************************************************************)
(* C17.  Messages of one user are serialized: two replies of a user that   *)
(* are delivered while one selection is pending never both call the        *)
(* pending operation; at most one service operation is called.             *)
(***************************************************************************)
C17_RepliesNeverBothDispatch == Len(dispatched) <= 1


(***************************************************************************)
(* GeminiProcessor (gemini_processor.py): the translators.                 *)
(*                                                                         *)
(* Regular expressions are matched as Python's re matches them: a pattern  *)
(* is a tree, and ReEnds(r, s, i) is the set of positions at which a match *)
(* of r that starts at position i of s can end.  ReIs names the patterns   *)
(* of width one or zero: "any" is ".", "space" is \s, "nonspace" is \S,    *)
(* "bol" is ^ and "eol" is $.                                              *)
(***************************************************************************)
ReLit(s) == [t |-> "lit", s |-> s]
ReCat(rs) == [t |-> "cat", rs |-> rs]
ReAlt(rs) == [t |-> "alt", rs |-> rs]
ReOpt(r) == [t |-> "opt", r |-> r]
ReStar(r) == [t |-> "star", r |-> r]
ReIs(class) == [t |-> class]

RECURSIVE ReEnds(_, _, _)
RECURSIVE ReCatEnds(_, _, _, _)
RECURSIVE ReStarEnds(_, _, _)
ReEnds(r, s, i) ==
    CASE r.t = "lit" ->
            IF i + Len(r.s) - 1 <= Len(s) /\ SubSeq(s, i, i + Len(r.s) - 1) = r.s
            THEN {i + Len(r.s)} ELSE {}
      [] r.t = "any" -> IF i <= Len(s) /\ s[i] # "\n" THEN {i + 1} ELSE {}
      [] r.t = "space" -> IF i <= Len(s) /\ IsSpace(s[i]) THEN {i + 1} ELSE {}
      [] r.t = "nonspace" -> IF i <= Len(s) /\ ~IsSpace(s[i]) THEN {i + 1} ELSE {}
      [] r.t = "upper" -> IF i <= Len(s) /\ Lower(<<s[i]>>) # <<s[i]>> THEN {i + 1} ELSE {}
      [] r.t = "notbracket" -> IF i <= Len(s) /\ s[i] # "]" THEN {i + 1} ELSE {}
      [] r.t = "bol" -> IF i = 1 THEN {i} ELSE {}
      [] r.t = "eol" -> IF i = Len(s) + 1 THEN {i} ELSE {}
      [] r.t = "opt" -> {i} \cup ReEnds(r.r, s, i)
      [] r.t = "alt" -> UNION {ReEnds(r.rs[k], s, i) : k \in 1..Len(r.rs)}
      [] r.t = "cat" -> ReCatEnds(r.rs, 1, s, {i})
      [] r.t = "star" -> ReStarEnds(r.r, s, {i})

ReCatEnds(rs, k, s, from) ==
    IF k > Len(rs) THEN from
    ELSE ReCatEnds(rs, k + 1, s, UNION {ReEnds(rs[k], s, i) : i \in from})

ReStarEnds(r, s, from) ==
    LET more == from \cup UNION {ReEnds(r, s, i) : i \in from}
    IN  IF more = from THEN from ELSE ReStarEnds(r, s, more)

\* re.search(pattern, s), as a truth value
re_search(r, s) == \E i \in 1..(Len(s) + 1) : ReEnds(r, s, i) # {}

\* A translation result {'text': ..., 'actions': [...]}.  A text is named by
\* what it says ("" is the empty text); an action keeps its service, its
\* verb and, for VIEW_EVENTS, its range.
Action(service, action, range) ==
    [service |-> service, action |-> action, range |-> range, params |-> <<>>]
Result(text, actions) == [text |-> text, actions |-> actions]
None == [text |-> "None", actions |-> <<>>]
ViewEvents(range) == Result("", <<Action("calendar", "VIEW_EVENTS", range)>>)

_check_calendar_intent(message) ==
    LET m == Lower(message)
        calendar_view_patterns ==
            << ReCat(<<ReLit(<<"w", "h", "a", "t">>), ReAlt(<<ReLit(<<"'", "s">>), ReLit(<<" ", "i", "s">>)>>), ReOpt(ReLit(<<" ", "o", "n">>)), ReOpt(ReLit(<<" ", "m", "y">>)), ReLit(<<" ">>), ReOpt(ReAlt(<<ReLit(<<"f", "o", "r", " ">>), ReLit(<<"o", "n", " ">>)>>)), ReOpt(ReAlt(<<ReLit(<<"c", "a", "l", "e", "n", "d", "a", "r">>), ReLit(<<"s", "c", "h", "e", "d", "u", "l", "e">>), ReLit(<<"a", "g", "e", "n", "d", "a">>)>>)), ReStar(ReIs("space")), ReOpt(ReAlt(<<ReLit(<<"f", "o", "r", " ">>), ReLit(<<"o", "n", " ">>)>>)), ReStar(ReIs("space")), ReLit(<<"t", "o", "d", "a", "y">>)>>),
               ReCat(<<ReLit(<<"w", "h", "a", "t">>), ReAlt(<<ReLit(<<"'", "s">>), ReLit(<<" ", "i", "s">>)>>), ReLit(<<" ">>), ReOpt(ReLit(<<"o", "n", " ">>)), ReOpt(ReLit(<<"m", "y", " ">>)), ReLit(<<"c", "a", "l", "e", "n", "d", "a", "r">>)>>),
               ReCat(<<ReLit(<<"w", "h", "a", "t">>), ReAlt(<<ReLit(<<"'", "s">>), ReLit(<<" ", "i", "s">>)>>), ReLit(<<" ">>), ReOpt(ReLit(<<"o", "n", " ">>)), ReLit(<<"t", "o", "d", "a", "y">>)>>),
               ReCat(<<ReLit(<<"w", "h", "a", "t">>), ReAlt(<<ReLit(<<"'", "s">>), ReLit(<<" ", "i", "s">>)>>), ReLit(<<" ", "f", "o", "r", " ", "t", "o", "d", "a", "y">>)>>),
               ReCat(<<ReAlt(<<ReLit(<<"s", "h", "o", "w">>), ReLit(<<"d", "i", "s", "p", "l", "a", "y">>), ReLit(<<"l", "i", "s", "t">>), ReLit(<<"v", "i", "e", "w">>), ReLit(<<"c", "h", "e", "c", "k">>)>>), ReOpt(ReLit(<<" ", "m", "e">>)), ReOpt(ReLit(<<" ", "m", "y">>)), ReLit(<<" ">>), ReAlt(<<ReLit(<<"c", "a", "l", "e", "n", "d", "a", "r">>), ReLit(<<"s", "c", "h", "e", "d", "u", "l", "e">>), ReCat(<<ReLit(<<"e", "v", "e", "n", "t">>), ReOpt(ReLit(<<"s">>))>>), ReLit(<<"a", "g", "e", "n", "d", "a">>)>>)>>),
               ReCat(<<ReOpt(ReLit(<<"m", "y", " ">>)), ReAlt(<<ReLit(<<"c", "a", "l", "e", "n", "d", "a", "r">>), ReLit(<<"s", "c", "h", "e", "d", "u", "l", "e">>), ReCat(<<ReLit(<<"e", "v", "e", "n", "t">>), ReOpt(ReLit(<<"s">>))>>), ReLit(<<"a", "g", "e", "n", "d", "a">>)>>), ReOpt(ReLit(<<" ", "f", "o", "r">>)), ReOpt(ReLit(<<" ", "t", "o", "d", "a", "y">>))>>),
               ReCat(<<ReLit(<<"w", "h", "a", "t", " ", "d", "o", " ", "i", " ", "h", "a", "v", "e", " ">>), ReAlt(<<ReLit(<<"t", "o", "d", "a", "y">>), ReLit(<<"s", "c", "h", "e", "d", "u", "l", "e", "d">>)>>)>>),
               ReCat(<<ReLit(<<"t", "o", "d", "a", "y">>), ReOpt(ReLit(<<"'", "s">>)), ReLit(<<" ">>), ReAlt(<<ReLit(<<"c", "a", "l", "e", "n", "d", "a", "r">>), ReLit(<<"s", "c", "h", "e", "d", "u", "l", "e">>), ReCat(<<ReLit(<<"e", "v", "e", "n", "t">>), ReOpt(ReLit(<<"s">>))>>), ReLit(<<"a", "g", "e", "n", "d", "a">>)>>)>>),
               ReCat(<<ReAlt(<<ReLit(<<"c", "a", "l", "e", "n", "d", "a", "r">>), ReLit(<<"s", "c", "h", "e", "d", "u", "l", "e">>)>>), ReLit(<<" ", "t", "o", "d", "a", "y">>)>>) >>
        range_val ==
            IF Contains(<<"y", "e", "s", "t", "e", "r", "d", "a", "y">>, m) THEN "yesterday"
            ELSE IF Contains(<<"t", "o", "m", "o", "r", "r", "o", "w">>, m) THEN "tomorrow"
            ELSE IF Contains(<<"w", "e", "e", "k">>, m) \/ Contains(<<"w", "e", "e", "k", "l", "y">>, m) THEN "week"
            ELSE IF Contains(<<"m", "o", "n", "t", "h">>, m) \/ Contains(<<"m", "o", "n", "t", "h", "l", "y">>, m) THEN "month"
            ELSE "today"
        calendar_keywords ==
            { <<"s", "c", "h", "e", "d", "u", "l", "e">>,
              <<"m", "e", "e", "t", "i", "n", "g">>,
              <<"a", "p", "p", "o", "i", "n", "t", "m", "e", "n", "t">>,
              <<"e", "v", "e", "n", "t">>,
              <<"c", "a", "l", "e", "n", "d", "a", "r">> }
        create_words ==
            { <<"c", "r", "e", "a", "t", "e">>,
              <<"a", "d", "d">>,
              <<"s", "c", "h", "e", "d", "u", "l", "e">>,
              <<"b", "o", "o", "k">>,
              <<"s", "e", "t", " ", "u", "p">> }
        delete_words ==
            { <<"c", "a", "n", "c", "e", "l">>,
              <<"d", "e", "l", "e", "t", "e">>,
              <<"r", "e", "m", "o", "v", "e">> }
    IN  IF \E k \in 1..Len(calendar_view_patterns) :
                re_search(calendar_view_patterns[k], m)
        THEN ViewEvents(range_val)
        ELSE IF AnyWordIn(calendar_keywords, m) /\ AnyWordIn(create_words, m)
        THEN Result("I'll help you schedule that.",
                    <<Action("calendar", "CREATE_EVENT", "")>>)
        ELSE IF AnyWordIn(calendar_keywords, m) /\ AnyWordIn(delete_words, m)
        THEN Result("I'll cancel that for you.",
                    <<Action("calendar", "DELETE_EVENT", "")>>)
        ELSE None

no_quick_match(message, available) == None
_quick_pattern_match(message, available) ==
    LET m == Lower(message)
        \* re.match(pattern, message_lower.strip())
        simple_patterns ==
            << ReCat(<<ReIs("bol"), ReCat(<<ReLit(<<"?">>), ReStar(ReLit(<<"?">>))>>), ReIs("eol")>>),
               ReCat(<<ReIs("bol"), ReLit(<<"w", "h", "a", "t">>), ReAlt(<<ReLit(<<"'", "s">>), ReLit(<<" ", "i", "s">>)>>), ReLit(<<" ">>), ReOpt(ReLit(<<"o", "n", " ">>)), ReOpt(ReLit(<<"m", "y", " ">>)), ReLit(<<"c", "a", "l", "e", "n", "d", "a", "r">>), ReOpt(ReLit(<<"?">>)), ReIs("eol")>>),
               ReCat(<<ReIs("bol"), ReLit(<<"c", "a", "l", "e", "n", "d", "a", "r">>), ReOpt(ReLit(<<"?">>)), ReIs("eol")>>),
               ReCat(<<ReIs("bol"), ReLit(<<"s", "c", "h", "e", "d", "u", "l", "e">>), ReOpt(ReLit(<<"?">>)), ReIs("eol")>>),
               ReCat(<<ReIs("bol"), ReLit(<<"t", "o", "d", "a", "y">>), ReOpt(ReLit(<<"?">>)), ReIs("eol")>>),
               ReCat(<<ReIs("bol"), ReLit(<<"w", "h", "a", "t">>), ReAlt(<<ReLit(<<"'", "s">>), ReLit(<<" ", "i", "s">>)>>), ReLit(<<" ", "t", "o", "d", "a", "y">>), ReOpt(ReLit(<<"?">>)), ReIs("eol")>>),
               ReCat(<<ReIs("bol"), ReLit(<<"w", "h", "a", "t">>), ReAlt(<<ReLit(<<"'", "s">>), ReLit(<<" ", "i", "s">>)>>), ReLit(<<" ", "f", "o", "r", " ", "t", "o", "d", "a", "y">>), ReOpt(ReLit(<<"?">>)), ReIs("eol")>>) >>
        week_phrases ==
            { <<"t", "h", "i", "s", " ", "w", "e", "e", "k">>,
              <<"w", "e", "e", "k", "l", "y">>,
              <<"w", "e", "e", "k", " ", "s", "c", "h", "e", "d", "u", "l", "e">> }
        month_phrases ==
            { <<"t", "h", "i", "s", " ", "m", "o", "n", "t", "h">>,
              <<"m", "o", "n", "t", "h", "l", "y">>,
              <<"m", "o", "n", "t", "h", " ", "s", "c", "h", "e", "d", "u", "l", "e">> }
        \* (schedule|create|add|book|set up).*(meeting|event|appointment|call)
        create_event_pattern ==
            ReCat(<<ReAlt(<<ReLit(<<"s", "c", "h", "e", "d", "u", "l", "e">>), ReLit(<<"c", "r", "e", "a", "t", "e">>), ReLit(<<"a", "d", "d">>), ReLit(<<"b", "o", "o", "k">>), ReLit(<<"s", "e", "t", " ", "u", "p">>)>>), ReStar(ReIs("any")), ReAlt(<<ReLit(<<"m", "e", "e", "t", "i", "n", "g">>), ReLit(<<"e", "v", "e", "n", "t">>), ReLit(<<"a", "p", "p", "o", "i", "n", "t", "m", "e", "n", "t">>), ReLit(<<"c", "a", "l", "l">>)>>)>>)
        \* (find|when|available|free).*(time|slot|availability)
        free_time_pattern ==
            ReCat(<<ReAlt(<<ReLit(<<"f", "i", "n", "d">>), ReLit(<<"w", "h", "e", "n">>), ReLit(<<"a", "v", "a", "i", "l", "a", "b", "l", "e">>), ReLit(<<"f", "r", "e", "e">>)>>), ReStar(ReIs("any")), ReAlt(<<ReLit(<<"t", "i", "m", "e">>), ReLit(<<"s", "l", "o", "t">>), ReLit(<<"a", "v", "a", "i", "l", "a", "b", "i", "l", "i", "t", "y">>)>>)>>)
        \* (show|list|check|get|view).*(unread|new).*(email|mail)
        list_unread_pattern ==
            ReCat(<<ReAlt(<<ReLit(<<"s", "h", "o", "w">>), ReLit(<<"l", "i", "s", "t">>), ReLit(<<"c", "h", "e", "c", "k">>), ReLit(<<"g", "e", "t">>), ReLit(<<"v", "i", "e", "w">>)>>), ReStar(ReIs("any")), ReAlt(<<ReLit(<<"u", "n", "r", "e", "a", "d">>), ReLit(<<"n", "e", "w">>)>>), ReStar(ReIs("any")), ReAlt(<<ReLit(<<"e", "m", "a", "i", "l">>), ReLit(<<"m", "a", "i", "l">>)>>)>>)
        \* delete.*(email|mail).*from\s+(\S+)
        delete_from_pattern ==
            ReCat(<<ReLit(<<"d", "e", "l", "e", "t", "e">>), ReStar(ReIs("any")), ReAlt(<<ReLit(<<"e", "m", "a", "i", "l">>), ReLit(<<"m", "a", "i", "l">>)>>), ReStar(ReIs("any")), ReLit(<<"f", "r", "o", "m">>), ReCat(<<ReIs("space"), ReStar(ReIs("space"))>>), ReCat(<<ReIs("nonspace"), ReStar(ReIs("nonspace"))>>)>>)
        \* (add|create|new).*(task|todo|reminder)
        add_task_pattern ==
            ReCat(<<ReAlt(<<ReLit(<<"a", "d", "d">>), ReLit(<<"c", "r", "e", "a", "t", "e">>), ReLit(<<"n", "e", "w">>)>>), ReStar(ReIs("any")), ReAlt(<<ReLit(<<"t", "a", "s", "k">>), ReLit(<<"t", "o", "d", "o">>), ReLit(<<"r", "e", "m", "i", "n", "d", "e", "r">>)>>)>>)
        quick_calendar ==
            IF \E k \in 1..Len(simple_patterns) :
                    ReEnds(simple_patterns[k], Strip(m), 1) # {}
            THEN ViewEvents("today")
            ELSE IF Contains(<<"y", "e", "s", "t", "e", "r", "d", "a", "y">>, m) THEN ViewEvents("yesterday")
            ELSE IF Contains(<<"t", "o", "m", "o", "r", "r", "o", "w">>, m) THEN ViewEvents("tomorrow")
            ELSE IF AnyWordIn(week_phrases, m) THEN ViewEvents("week")
            ELSE IF AnyWordIn(month_phrases, m) THEN ViewEvents("month")
            ELSE IF re_search(create_event_pattern, m)
            THEN Result("I'll help you schedule that event.",
                        <<Action("calendar", "CREATE_EVENT", "")>>)
            ELSE IF re_search(free_time_pattern, m)
            THEN Result("I'll find available slots for you.",
                        <<Action("calendar", "FIND_FREE_TIME", "")>>)
            ELSE None
        quick_gmail ==
            IF re_search(list_unread_pattern, m)
            THEN Result("Let me check your unread emails.",
                        <<Action("gmail", "LIST_UNREAD", "")>>)
            ELSE IF re_search(delete_from_pattern, m)
            THEN Result("I'll find and help you delete emails from ...",
                        <<Action("gmail", "DELETE_EMAIL", "")>>)
            ELSE None
        quick_tasks ==
            IF re_search(add_task_pattern, m)
            THEN Result("I'll add that task for you.", <<Action("tasks", "ADD_TASK", "")>>)
            ELSE None
        c == IF "calendar" \in available THEN quick_calendar ELSE None
        g == IF "gmail" \in available THEN quick_gmail ELSE None
        k == IF "tasks" \in available THEN quick_tasks ELSE None
    IN  IF c # None THEN c ELSE IF g # None THEN g ELSE k

\* the list of intents {'service': ..., 'action': ...} of a lower-cased message
_detect_intents(m) ==
    LET calendar_keywords ==
            { <<"c", "a", "l", "e", "n", "d", "a", "r">>,
              <<"s", "c", "h", "e", "d", "u", "l", "e">>,
              <<"e", "v", "e", "n", "t">>,
              <<"m", "e", "e", "t", "i", "n", "g">>,
              <<"a", "p", "p", "o", "i", "n", "t", "m", "e", "n", "t">>,
              <<"t", "o", "d", "a", "y">>,
              <<"t", "o", "m", "o", "r", "r", "o", "w">> }
        view_words ==
            { <<"s", "h", "o", "w">>,
              <<"v", "i", "e", "w">>,
              <<"c", "h", "e", "c", "k">>,
              <<"w", "h", "a", "t">>,
              <<"l", "i", "s", "t">>,
              <<"?">> }
        create_words ==
            { <<"c", "r", "e", "a", "t", "e">>,
              <<"a", "d", "d">>,
              <<"s", "c", "h", "e", "d", "u", "l", "e">>,
              <<"b", "o", "o", "k">>,
              <<"s", "e", "t">> }
        delete_words ==
            { <<"d", "e", "l", "e", "t", "e">>,
              <<"c", "a", "n", "c", "e", "l">>,
              <<"r", "e", "m", "o", "v", "e">> }
        gmail_keywords ==
            { <<"e", "m", "a", "i", "l">>,
              <<"m", "a", "i", "l">>,
              <<"i", "n", "b", "o", "x">>,
              <<"g", "m", "a", "i", "l">> }
        gmail_words ==
            { <<"r", "e", "a", "d">>,
              <<"s", "h", "o", "w">>,
              <<"c", "h", "e", "c", "k">>,
              <<"v", "i", "e", "w">>,
              <<"l", "i", "s", "t">> }
    IN  (IF AnyWordIn(calendar_keywords, m)
         THEN IF AnyWordIn(view_words, m)
              THEN <<[service |-> "calendar", action |-> "view"]>>
              ELSE IF AnyWordIn(create_words, m)
              THEN <<[service |-> "calendar", action |-> "create"]>>
              ELSE IF AnyWordIn(delete_words, m)
              THEN <<[service |-> "calendar", action |-> "delete"]>>
              ELSE <<>>
         ELSE <<>>)
        \o
        (IF AnyWordIn(gmail_keywords, m) /\ AnyWordIn(gmail_words, m)
         THEN <<[service |-> "gmail", action |-> "list"]>>
         ELSE <<>>)

\* A variant of the answer to an unrecognised message that says nothing.
silent == Result("", <<>>)

\* if not intents: the text that asks the user to be more specific
rephrase == Result("I understand you need help, but I'm not sure ...", <<>>)

_fallback_processing(user_message, available) ==
    LET m == Lower(user_message)
        intents == _detect_intents(m)
        calendar_words ==
            { <<"c", "a", "l", "e", "n", "d", "a", "r">>,
              <<"s", "c", "h", "e", "d", "u", "l", "e">>,
              <<"t", "o", "d", "a", "y">>,
              <<"e", "v", "e", "n", "t", "s">>,
              <<"w", "h", "a", "t">> }
    IN  IF AnyWordIn(calendar_words, m) THEN ViewEvents("today")
        ELSE IF intents = <<>> THEN rephrase
        ELSE IF intents[1].service = "calendar" /\ intents[1].action = "view"
        THEN ViewEvents("today")
        ELSE Result("I think you want to ... Let me help you with that.", <<>>)

\* What the prompt tells the model about services: the names it lists after
\* "Available services with FULL access:", and the services whose action
\* tags ([SERVICE_ACTION: <SERVICE> | ...]) its text shows.
_build_enhanced_prompt(available) ==
    [service_list |-> available, action_tags |-> {"calendar"}]
NoBuiltPrompt == [service_list |-> {}, action_tags |-> {}]

\* self.model, and what generate_content does when it is called.  A reply of
\* the model is its text; tags lists the action tags written into that text
\* in the prompt's ACTION FORMAT, in order, each with its service and its
\* action verb ("" when the tag carries none).
Models ==
    LET Tag(service, action) == [service |-> service, action |-> action]
        Model(kind, reply, tags) == [kind |-> kind, reply |-> reply, tags |-> tags]
    IN  { Model("unconfigured", <<>>, <<>>),
          Model("raise", <<>>, <<>>),
          Model("reply",
                <<"S", "u", "r", "e", ",", " ", "h", "e", "r", "e", " ", "y", "o", "u", " ", "g", "o", ".">>,
                <<>>),
          Model("reply",
                <<"[", "S", "E", "R", "V", "I", "C", "E", "_", "A", "C", "T", "I", "O", "N", ":", " ", "C", "A", "L", "E", "N", "D", "A", "R", " ", "|", " ", "a", "c", "t", "i", "o", "n", ":", " ", "V", "I", "E", "W", "_", "E", "V", "E", "N", "T", "S", " ", "|", " ", "r", "a", "n", "g", "e", ":", " ", "\"", "t", "o", "d", "a", "y", "\"", "]">>,
                <<Tag("calendar", "VIEW_EVENTS")>>),
          Model("reply",
                <<"S", "e", "a", "r", "c", "h", "i", "n", "g", ".", "\n", "[", "S", "E", "R", "V", "I", "C", "E", "_", "A", "C", "T", "I", "O", "N", ":", " ", "G", "M", "A", "I", "L", " ", "|", " ", "a", "c", "t", "i", "o", "n", ":", " ", "S", "E", "A", "R", "C", "H", "_", "E", "M", "A", "I", "L", "S", " ", "|", " ", "q", "u", "e", "r", "y", ":", " ", "\"", "f", "r", "o", "m", ":", "b", "o", "b", "\"", "]">>,
                <<Tag("gmail", "SEARCH_EMAILS")>>),
          Model("reply",
                <<"[", "S", "E", "R", "V", "I", "C", "E", "_", "A", "C", "T", "I", "O", "N", ":", " ", "D", "R", "I", "V", "E", " ", "|", " ", "n", "a", "m", "e", ":", " ", "\"", "x", "\"", "]">>,
                <<Tag("drive", "")>>),
          Model("reply",
                <<"O", "k", " ", "[", "S", "E", "R", "V", "I", "C", "E", "_", "A", "C", "T", "I", "O", "N", ":", " ", "D", "R", "I", "V", "E", " ", "|", " ", "a", "c", "t", "i", "o", "n", ":", " ", "S", "E", "A", "R", "C", "H", "_", "F", "I", "L", "E", "S", " ", "|", " ", "q", "u", "e", "r", "y", ":", " ", "\"", "a", "\"", "]", " ", "a", "n", "d", " ", "[", "S", "E", "R", "V", "I", "C", "E", "_", "A", "C", "T", "I", "O", "N", ":", "T", "A", "S", "K", "S", "|", "a", "c", "t", "i", "o", "n", ":", "L", "I", "S", "T", "_", "T", "A", "S", "K", "S", "]">>,
                <<Tag("drive", "SEARCH_FILES"), Tag("tasks", "LIST_TASKS")>>),
          Model("reply",
                <<"[", "S", "E", "R", "V", "I", "C", "E", "_", "A", "C", "T", "I", "O", "N", ":", " ", "C", "A", "L", "E", "N", "D", "A", "R", " ", "|", " ", "a", "c", "t", "i", "o", "n", ":", " ", "C", "R", "E", "A", "T", "E", "_", "E", "V", "E", "N", "T", " ", "|", " ", "t", "i", "t", "l", "e", ":", " ", "\"", "S", "t", "a", "n", "d", "u", "p", "\"", " ", "|", " ", "d", "u", "r", "a", "t", "i", "o", "n", ":", " ", "\"", "1", "5", " ", "m", "i", "n", "u", "t", "e", "s", "\"", "]">>,
                <<Tag("calendar", "CREATE_EVENT")>>),
          Model("reply",
                <<"[", "S", "E", "R", "V", "I", "C", "E", "_", "A", "C", "T", "I", "O", "N", ":", " ", "C", "A", "L", "E", "N", "D", "A", "R", " ", "|", " ", "a", "c", "t", "i", "o", "n", ":", " ", "C", "R", "E", "A", "T", "E", "_", "E", "V", "E", "N", "T", " ", "|", " ", "d", "a", "t", "e", ":", " ", "\"", "t", "o", "m", "o", "r", "r", "o", "w", "\"", "]">>,
                <<Tag("calendar", "CREATE_EVENT")>>),
          Model("reply",
                <<"[", "S", "E", "R", "V", "I", "C", "E", "_", "A", "C", "T", "I", "O", "N", ":", " ", "C", "O", "N", "T", "A", "C", "T", "S", " ", "|", " ", "a", "c", "t", "i", "o", "n", ":", " ", "F", "I", "N", "D", "_", "C", "O", "N", "T", "A", "C", "T", " ", "|", " ", "n", "a", "m", "e", ":", " ", "'", "a", "n", "n", "'", "]", "[", "S", "E", "R", "V", "I", "C", "E", "_", "A", "C", "T", "I", "O", "N", ":", " ", "C", "A", "L", "E", "N", "D", "A", "R", " ", "|", " ", "a", "c", "t", "i", "o", "n", ":", " ", "\"", "\"", "]">>,
                <<Tag("contacts", "FIND_CONTACT"), Tag("calendar", "")>>),
          Model("reply",
                <<"[", "S", "E", "R", "V", "I", "C", "E", "_", "A", "C", "T", "I", "O", "N", ":", " ", "G", "M", "A", "I", "L", " ", "|", " ", "a", "c", "t", "i", "o", "n", ":", " ", "D", "E", "L", "E", "T", "E", "_", "E", "M", "A", "I", "L", " ", "|", " ", "q", "u", "e", "r", "y", ":", " ", "\"", "o", "l", "d", " ", "i", "n", "v", "o", "i", "c", "e", "s", " ", "f", "r", "o", "m", " ", "b", "o", "b", "\"", "]">>,
                <<Tag("gmail", "DELETE_EMAIL")>>),
          Model("reply",
                <<"[", "S", "E", "R", "V", "I", "C", "E", "_", "A", "C", "T", "I", "O", "N", ":", " ", "G", "M", "A", "I", "L", " ", "|", " ", "a", "c", "t", "i", "o", "n", ":", " ", "D", "E", "L", "E", "T", "E", "_", "E", "M", "A", "I", "L", " ", "|", " ", "d", "e", "s", "c", "r", "i", "p", "t", "i", "o", "n", ":", " ", "\"", "n", "e", "w", "s", "l", "e", "t", "t", "e", "r", "\"", "]">>,
                <<Tag("gmail", "DELETE_EMAIL")>>),
          Model("reply",
                <<"[", "S", "E", "R", "V", "I", "C", "E", "_", "A", "C", "T", "I", "O", "N", ":", " ", "G", "M", "A", "I", "L", " ", "|", " ", "a", "c", "t", "i", "o", "n", ":", " ", "D", "E", "L", "E", "T", "E", "_", "E", "M", "A", "I", "L", " ", "|", " ", "e", "m", "a", "i", "l", "_", "i", "d", ":", " ", "\"", "m", "1", "\"", "]">>,
                <<Tag("gmail", "DELETE_EMAIL")>>) }

\* params.get(key) and params[key] = value of an action's parameters, kept
\* as the list of <<key, value>> pairs in the order the keys were first set
params_get(params, key) ==
    IF \E i \in 1..Len(params) : params[i][1] = key
    THEN params[CHOOSE i \in 1..Len(params) : params[i][1] = key][2]
    ELSE <<>>
params_set(params, key, value) ==
    IF \E i \in 1..Len(params) : params[i][1] = key
    THEN [i \in 1..Len(params) |->
            IF params[i][1] = key THEN <<key, value>> ELSE params[i]]
    ELSE Append(params, <<key, value>>)

\* the service or action a text names ("other" for any other non-empty text)
Str(chars) ==
    LET table ==
            { <<"calendar", <<"c", "a", "l", "e", "n", "d", "a", "r">>>>,
              <<"gmail", <<"g", "m", "a", "i", "l">>>>,
              <<"drive", <<"d", "r", "i", "v", "e">>>>,
              <<"contacts", <<"c", "o", "n", "t", "a", "c", "t", "s">>>>,
              <<"tasks", <<"t", "a", "s", "k", "s">>>>,
              <<"VIEW_EVENTS", <<"V", "I", "E", "W", "_", "E", "V", "E", "N", "T", "S">>>>,
              <<"CREATE_EVENT", <<"C", "R", "E", "A", "T", "E", "_", "E", "V", "E", "N", "T">>>>,
              <<"CREATE_RECURRING", <<"C", "R", "E", "A", "T", "E", "_", "R", "E", "C", "U", "R", "R", "I", "N", "G">>>>,
              <<"BLOCK_TIME", <<"B", "L", "O", "C", "K", "_", "T", "I", "M", "E">>>>,
              <<"SEARCH_EMAILS", <<"S", "E", "A", "R", "C", "H", "_", "E", "M", "A", "I", "L", "S">>>>,
              <<"DELETE_EMAIL", <<"D", "E", "L", "E", "T", "E", "_", "E", "M", "A", "I", "L">>>>,
              <<"SEARCH_FILES", <<"S", "E", "A", "R", "C", "H", "_", "F", "I", "L", "E", "S">>>>,
              <<"LIST_TASKS", <<"L", "I", "S", "T", "_", "T", "A", "S", "K", "S">>>>,
              <<"FIND_CONTACT", <<"F", "I", "N", "D", "_", "C", "O", "N", "T", "A", "C", "T">>>> }
    IN  IF chars = <<>> THEN ""
        ELSE IF \E p \in table : p[2] = chars
        THEN (CHOOSE p \in table : p[2] = chars)[1]
        ELSE "other"

any_service(service_lower, available) == TRUE
\* if service_lower not in available_services: continue
service_available(service_lower, available) == service_lower \in available

_parse_and_validate_response(response, available) ==
    LET tag_open == <<"[", "S", "E", "R", "V", "I", "C", "E", "_", "A", "C", "T", "I", "O", "N", ":">>
        action_pattern ==
            ReCat(<<ReLit(tag_open),
                    ReStar(ReIs("space")),
                    ReIs("upper"), ReStar(ReIs("upper")),
                    ReStar(ReIs("space")),
                    ReLit(<<"|">>),
                    ReIs("notbracket"), ReStar(ReIs("notbracket")),
                    ReLit(<<"]">>)>>)
        RECURSIVE finditer(_)
        \* the matches from position i on, leftmost first and not overlapping,
        \* each as <<start, end>>
        finditer(i) ==
            IF i > Len(response) THEN <<>>
            ELSE LET ends == ReEnds(action_pattern, response, i)
                 IN  IF ends = {} THEN finditer(i + 1)
                     ELSE LET e == CHOOSE e \in ends : \A f \in ends : f <= e
                          IN  <<<<i, e>>>> \o finditer(e)
        matches == finditer(1)
        RECURSIVE skip(_, _)
        skip(class, i) ==
            IF ReEnds(ReIs(class), response, i) = {} THEN i ELSE skip(class, i + 1)
        \* ([A-Z]+) and ([^\]]+) of a match
        name_from(m) == skip("space", m[1] + Len(tag_open))
        service_name(m) == SubSeq(response, name_from(m), skip("upper", name_from(m)) - 1)
        params_str(m) ==
            SubSeq(response, skip("space", skip("upper", name_from(m))) + 1, m[2] - 2)
        \* re.sub(action_pattern, '', response)
        RECURSIVE cut(_, _)
        cut(i, k) ==
            IF k > Len(matches) THEN SubSeq(response, i, Len(response))
            ELSE SubSeq(response, i, matches[k][1] - 1) \o cut(matches[k][2], k + 1)
        clean_text == Strip(cut(1, 1))
        find(c, s) == IF \E i \in 1..Len(s) : s[i] = c
                      THEN CHOOSE i \in 1..Len(s) : s[i] = c /\ \A j \in 1..(i - 1) : s[j] # c
                      ELSE 0
        RECURSIVE split(_)
        \* s.split('|')
        split(s) ==
            IF find("|", s) = 0 THEN <<s>>
            ELSE <<SubSeq(s, 1, find("|", s) - 1)>>
                   \o split(SubSeq(s, find("|", s) + 1, Len(s)))
        \* s.strip(c)
        strip(s, c) ==
            LET keep == {i \in 1..Len(s) : s[i] # c}
            IN  IF keep = {} THEN <<>>
                ELSE SubSeq(s, CHOOSE i \in keep : \A j \in keep : i <= j,
                               CHOOSE i \in keep : \A j \in keep : i >= j)
        RECURSIVE parse(_, _, _)
        \* for part in parts: ... params[key] = value
        parse(parts, k, params) ==
            IF k > Len(parts) THEN params
            ELSE LET part == parts[k]
                     colon == find(":", part)
                     key == Strip(SubSeq(part, 1, colon - 1))
                     value == strip(strip(Strip(SubSeq(part, colon + 1, Len(part))),
                                          "\""), "'")
                 IN  IF colon # 0 /\ key # <<>> /\ value # <<>>
                     THEN parse(parts, k + 1, params_set(params, key, value))
                     ELSE parse(parts, k + 1, params)
        RECURSIVE validate(_)
        \* for service_name, params_str in matches: ...
        validate(k) ==
            IF k > Len(matches) THEN <<>>
            ELSE LET service_lower == Str(Lower(service_name(matches[k])))
                     params == parse(split(params_str(matches[k])), 1, <<>>)
                     action_name == params_get(params, <<"a", "c", "t", "i", "o", "n">>)
                 IN  IF service_available(service_lower, available) /\ action_name # <<>>
                     THEN <<[Action(service_lower, Str(action_name), "")
                               EXCEPT !.params = params]>> \o validate(k + 1)
                     ELSE validate(k + 1)
    IN  Result(IF clean_text = <<>> THEN "" ELSE "model text", validate(1))

_enhance_actions(actions, user_message) ==
    LET message_lower == Lower(user_message)
        has(word) == Contains(word, message_lower)
        duration == <<"d", "u", "r", "a", "t", "i", "o", "n">>
        title == <<"t", "i", "t", "l", "e">>
        smart_duration ==
            IF has(<<"s", "t", "a", "n", "d", "u", "p">>)
                 \/ has(<<"d", "a", "i", "l", "y">>)
                 \/ has(<<"s", "y", "n", "c">>)
            THEN <<"3", "0", " ", "m", "i", "n", "u", "t", "e", "s">>
            ELSE IF has(<<"l", "u", "n", "c", "h">>) THEN <<"1", " ", "h", "o", "u", "r">>
            ELSE IF has(<<"i", "n", "t", "e", "r", "v", "i", "e", "w">>)
            THEN <<"1", " ", "h", "o", "u", "r">>
            ELSE IF has(<<"c", "a", "l", "l">>) THEN <<"3", "0", " ", "m", "i", "n", "u", "t", "e", "s">>
            ELSE <<"1", " ", "h", "o", "u", "r">>
        smart_title ==
            IF has(<<"m", "e", "e", "t", "i", "n", "g">>) THEN <<"M", "e", "e", "t", "i", "n", "g">>
            ELSE IF has(<<"a", "p", "p", "o", "i", "n", "t", "m", "e", "n", "t">>)
            THEN <<"A", "p", "p", "o", "i", "n", "t", "m", "e", "n", "t">>
            ELSE IF has(<<"c", "a", "l", "l">>) THEN <<"C", "a", "l", "l">>
            ELSE IF has(<<"i", "n", "t", "e", "r", "v", "i", "e", "w">>)
            THEN <<"I", "n", "t", "e", "r", "v", "i", "e", "w">>
            ELSE <<>>
        with_duration(params) ==
            IF params_get(params, duration) = <<>>
            THEN params_set(params, duration, smart_duration) ELSE params
        with_title(params) ==
            IF params_get(params, title) = <<>> /\ smart_title # <<>>
            THEN params_set(params, title, smart_title) ELSE params
        enhance(action) ==
            IF /\ action.service = "calendar"
               /\ action.action \in {"CREATE_EVENT", "CREATE_RECURRING", "BLOCK_TIME"}
            THEN [action EXCEPT !.params = with_title(with_duration(action.params))]
            ELSE action
    IN  [i \in 1..Len(actions) |-> enhance(actions[i])]

\* the search query of handle_delete_email: params.get('query', description)
\* and the smart query built from it
delete_query(params) ==
    LET description == params_get(params, <<"d", "e", "s", "c", "r", "i", "p", "t", "i", "o", "n">>)
        supplied == params_get(params, <<"q", "u", "e", "r", "y">>)
        query == IF \E i \in 1..Len(params) : params[i][1] = <<"q", "u", "e", "r", "y">>
                 THEN supplied ELSE description
        has(word) == Contains(word, Lower(query))
    IN  IF query = <<>> THEN <<"i", "s", ":", "u", "n", "r", "e", "a", "d">>
        ELSE IF has(<<"s", "p", "a", "m">>) THEN <<"i", "s", ":", "s", "p", "a", "m">>
        ELSE IF has(<<"o", "l", "d">>) THEN <<"o", "l", "d", "e", "r", "_", "t", "h", "a", "n", ":", "3", "0", "d">>
        ELSE IF has(<<"p", "r", "o", "m", "o", "t", "i", "o", "n", "a", "l">>)
        THEN <<"c", "a", "t", "e", "g", "o", "r", "y", ":", "p", "r", "o", "m", "o", "t", "i", "o", "n", "s">>
        ELSE query

not_configured == Result("Gemini AI is not configured. Please set up the API key.", <<>>)

\* process, and whether it got as far as self.model.generate_content(prompt)
process(user_message, available, model) ==
    LET cal == IF "calendar" \in available
               THEN _check_calendar_intent(user_message) ELSE None
        quick == _quick_pattern_match(user_message, available)
        parsed == _parse_and_validate_response(model.reply, available)
        Returns(result, called) == [result |-> result, called |-> called]
    IN  IF model.kind = "unconfigured" THEN Returns(not_configured, FALSE)
        ELSE IF cal # None THEN Returns(cal, FALSE)
        ELSE IF quick # None THEN Returns(quick, FALSE)
        ELSE IF model.kind = "raise"
        THEN Returns(_fallback_processing(user_message, available), TRUE)
        ELSE Returns(Result(parsed.text, _enhance_actions(parsed.actions, user_message)),
                     TRUE)

(***************************************************************************)
(* SpecTranslate: the translators applied to a message.  The enabled       *)
(* services, the message and the behaviour of the model are drawn at the   *)
(* start; each action applies one function of GeminiProcessor to them.     *)
(***************************************************************************)
Utterances ==
    { <<"c", "a", "l", "e", "n", "d", "a", "r">>,
      <<"p", "l", "a", "n", "s", " ", "t", "o", "d", "a", "y">>,
      <<"h", "e", "l", "l", "o">>,
      <<"c", "h", "e", "c", "k", " ", "m", "y", " ", "e", "m", "a", "i", "l">>,
      <<"?">>,
      <<"b", "o", "o", "k", " ", "m", "e", "e", "t", "i", "n", "g">>,
      <<"a", "d", "d", " ", "t", "a", "s", "k", " ", "m", "i", "l", "k">>,
      <<"t", "o", "m", "o", "r", "r", "o", "w">>,
      <<"W", "h", "a", "t", "'", "s", " ", "o", "n", " ", "t", "o", "d", "a", "y">>,
      <<"c", "a", "n", "c", "e", "l", " ", "e", "v", "e", "n", "t">>,
      <<"d", "e", "l", "e", "t", "e", " ", "m", "a", "i", "l", " ", "f", "r", "o", "m", " ", "b", "o", "b">>,
      <<"s", "h", "o", "w", " ", "u", "n", "r", "e", "a", "d", " ", "m", "a", "i", "l">>,
      <<"f", "i", "n", "d", " ", "f", "r", "e", "e", " ", "t", "i", "m", "e">>,
      <<"t", "h", "i", "s", " ", "w", "e", "e", "k">>,
      <<"s", "h", "o", "w", " ", "m", "e", "e", "t", "i", "n", "g">>,
      <<"l", "u", "n", "c", "h", " ", "w", "i", "t", "h", " ", "b", "o", "b">>,
      <<"d", "a", "i", "l", "y", " ", "s", "t", "a", "n", "d", "u", "p">>,
      <<"s", "h", "o", "w", " ", "m", "y", " ", "c", "a", "l", "e", "n", "d", "a", "r", " ", "n", "e", "x", "t", " ", "w", "e", "e", "k">>,
      <<"m", "y", " ", "s", "c", "h", "e", "d", "u", "l", "e", " ", "l", "a", "s", "t", " ", "m", "o", "n", "t", "h">>,
      <<"S", "c", "h", "e", "d", "u", "l", "e", " ", "a", " ", "m", "e", "e", "t", "i", "n", "g", " ", "t", "o", "m", "o", "r", "r", "o", "w">>,
      <<"?", "?">> }

InitTranslate ==
    /\ services \in SUBSET Services
    /\ translation \in
         { [op |-> "input", utterance |-> u, model |-> m, called |-> FALSE,
            result |-> None, prompt |-> NoBuiltPrompt, query |-> <<>>] :
           u \in Utterances, m \in Models }
    /\ users = {"u1"}
    /\ fsm = [u \in AllUsers |-> IDLE]
    /\ data = [u \in AllUsers |-> EmptyData]
    /\ search_results = [s \in Services |-> [u \in AllUsers |-> NoResults]]
    /\ remaining = [u \in AllUsers |-> 0]
    /\ prompt = NoPrompt
    /\ last = Step("none", "none", <<>>, <<>>, <<>>, FALSE)
    /\ inflight = NoTasks
    /\ dispatched = <<>>
    /\ conversations = [u \in AllUsers |-> <<>>]
    /\ context = <<>>
    /\ clock = 0

\* response = await self.gemini_processor.process(message.text, ...)
Process ==
    /\ translation.op = "input"
    /\ LET p == process(translation.utterance, services, translation.model)
       IN  translation' =
             [translation EXCEPT
                !.op = "process",
                !.called = p.called,
                !.result = p.result,
                !.prompt = IF p.called THEN _build_enhanced_prompt(services)
                           ELSE NoBuiltPrompt]
    /\ UNCHANGED <<conversations, context, clock,
                   services, users, fsm, data, search_results, remaining, prompt,
                   last, inflight, dispatched>>

\* the fallback classifier applied to the message
Fallback ==
    /\ translation.op = "input"
    /\ translation' =
         [translation EXCEPT
            !.op = "fallback",
            !.result = _fallback_processing(translation.utterance, services)]
    /\ UNCHANGED <<conversations, context, clock,
                   services, users, fsm, data, search_results, remaining, prompt,
                   last, inflight, dispatched>>

\* the prompt built for the enabled services
BuildPrompt ==
    /\ translation.op = "input"
    /\ translation' =
         [translation EXCEPT
            !.op = "prompt", !.prompt = _build_enhanced_prompt(services)]
    /\ UNCHANGED <<conversations, context, clock,
                   services, users, fsm, data, search_results, remaining, prompt,
                   last, inflight, dispatched>>

\* the parser applied to the reply of the model
Parse ==
    /\ translation.op = "input"
    /\ translation.model.kind = "reply"
    /\ translation' =
         [translation EXCEPT
            !.op = "parse",
            !.result = _parse_and_validate_response(translation.model.reply, services)]
    /\ UNCHANGED <<conversations, context, clock,
                   services, users, fsm, data, search_results, remaining, prompt,
                   last, inflight, dispatched>>

\* actions = self._enhance_actions(actions, user_message), on parsed actions
Enhance ==
    /\ translation.op = "parse"
    /\ translation' =
         [translation EXCEPT
            !.op = "enhance",
            !.result = Result(translation.result.text,
                              _enhance_actions(translation.result.actions,
                                               translation.utterance))]
    /\ UNCHANGED <<conversations, context, clock,
                   services, users, fsm, data, search_results, remaining, prompt,
                   last, inflight, dispatched>>

\* handle_delete_email builds the search query for a parsed deletion request
\* that names no email_id
DeleteQuery ==
    /\ translation.op = "parse"
    /\ \E i \in 1..Len(translation.result.actions) :
         LET action == translation.result.actions[i]
         IN  /\ action.service = "gmail"
             /\ action.action = "DELETE_EMAIL"
             /\ params_get(action.params, <<"e", "m", "a", "i", "l", "_", "i", "d">>) = <<>>
             /\ translation' =
                  [translation EXCEPT
                     !.op = "delete_query", !.query = delete_query(action.params)]
    /\ UNCHANGED <<conversations, context, clock,
                   services, users, fsm, data, search_results, remaining, prompt,
                   last, inflight, dispatched>>

NextTranslate == Process \/ Fallback \/ BuildPrompt \/ Parse \/ Enhance \/ DeleteQuery

SpecTranslate == InitTranslate /\ [][NextTranslate]_vars

(***************************************************************************)
(* C18.  Whenever the model is unavailable or the call of the model fails, *)
(* process returns what the fallback classifier returns for the message    *)
(* and no error text; in particular, if the message contains "calendar" or *)
(* "today", the result carries a calendar VIEW_EVENTS action.              *)
(***************************************************************************)
C18_ModelFailureFallsBack ==
    (/\ translation.op = "process"
     /\ \/ translation.model.kind = "unconfigured"
        \/ translation.model.kind = "raise" /\ translation.called) =>
       LET m == Lower(translation.utterance)
           res == translation.result
       IN  /\ res = _fallback_processing(translation.utterance, services)
           /\ res # not_configured
           /\ (Contains(<<"c", "a", "l", "e", "n", "d", "a", "r">>, m)
                 \/ Contains(<<"t", "o", "d", "a", "y">>, m)) =>
                \E i \in 1..Len(res.actions) :
                    /\ res.actions[i].service = "calendar"
                    /\ res.actions[i].action = "VIEW_EVENTS"


(***************************************************************************)
(* C19.  For every message, the fallback classifier returns at most one    *)
(* action, and its result is never silent: whenever the list of actions is *)
(* empty, the text is not empty.                                           *)
(***************************************************************************)
C19_FallbackIsNeverSilent ==
    translation.op = "fallback" =>
        /\ Len(translation.result.actions) <= 1
        /\ translation.result.actions = <<>> => translation.result.text # ""

\* a message with no keyword was answered with the request to be more specific
C19_Witness ==
    /\ translation.op = "fallback"
    /\ translation.utterance = <<"h", "e", "l", "l", "o">>
    /\ translation.result.actions = <<>>
    /\ translation.result = rephrase

(***************************************************************************)
(* C20.  For every set S of enabled services, the prompt built by          *)
(* _build_enhanced_prompt names only services of S and shows action tags   *)
(* only of services of S.                                                  *)
(***************************************************************************)
C20_PromptAdvertisesOnlyEnabledServices ==
    (translation.op = "prompt" \/ (translation.op = "process" /\ translation.called)) =>
        /\ translation.prompt.service_list \subseteq services
        /\ translation.prompt.action_tags \subseteq services

(***************************************************************************)
(* C21.  For every reply of the model, _parse_and_validate_response        *)
(* returns, in the order of the reply, exactly one action for each tag     *)
(* that names an enabled service and carries an action verb; a tag naming  *)
(* a disabled service or carrying no verb is dropped without losing the    *)
(* other tags, and a reply without a valid tag gives an empty list.        *)
(***************************************************************************)
C21_ParserKeepsExactlyTheValidTags ==
    translation.op = "parse" =>
       LET valid(tag) == tag.service \in services /\ tag.action # ""
           kept == SelectSeq(translation.model.tags, valid)
           actions == translation.result.actions
       IN  /\ Len(actions) = Len(kept)
           /\ \A i \in 1..Len(kept) :
                /\ actions[i].service = kept[i].service
                /\ actions[i].action = kept[i].action

\* a reply with two tags of which the first names a disabled service
C21_Witness ==
    /\ translation.op = "parse"
    /\ Len(translation.model.tags) = 2
    /\ translation.model.tags[1].service \notin services
    /\ Len(translation.result.actions) = 1
    /\ translation.result.actions[1].service = translation.model.tags[2].service

(***************************************************************************)
(* C22.  Parameter filling never changes a parameter that was supplied     *)
(* with a non-empty value: after _enhance_actions every parameter of every *)
(* parsed action still has the value it was parsed with, enhancing the     *)
(* enhanced actions again changes nothing, and the query handle_delete_-   *)
(* email searches with is the supplied query whenever one was supplied.    *)
(***************************************************************************)
C22_FillingKeepsSuppliedParameters ==
    LET parsed == _parse_and_validate_response(translation.model.reply, services).actions
        query == <<"q", "u", "e", "r", "y">>
    IN  /\ translation.op = "enhance" =>
             LET enhanced == translation.result.actions
             IN  /\ Len(enhanced) = Len(parsed)
                 /\ \A i \in 1..Len(parsed) :
                      \A k \in 1..Len(parsed[i].params) :
                         params_get(enhanced[i].params, parsed[i].params[k][1])
                           = parsed[i].params[k][2]
                 /\ _enhance_actions(enhanced, translation.utterance) = enhanced
        /\ translation.op = "delete_query" =>
             \A i \in 1..Len(parsed) :
                params_get(parsed[i].params, query) # <<>> =>
                   translation.query = params_get(parsed[i].params, query)


(***************************************************************************)
(* C23.  With calendar enabled, every VIEW_EVENTS action the deterministic *)
(* matcher returns carries a range token of the closed set yesterday,      *)
(* today, tomorrow, week, month, and when the message names a relative     *)
(* period (today, tomorrow, yesterday, this, last/previous or next week or *)
(* month) the token denotes that period, as handle_view_events reads it.   *)
(***************************************************************************)
C23_ViewRangeDenotesTheNamedPeriod ==
    LET m == Lower(translation.utterance)
        names(w) == Contains(w, m)
        period ==
            IF names(<<"n", "e", "x", "t", " ", "w", "e", "e", "k">>) THEN "next week"
            ELSE IF names(<<"l", "a", "s", "t", " ", "w", "e", "e", "k">>) \/ names(<<"p", "r", "e", "v", "i", "o", "u", "s", " ", "w", "e", "e", "k">>) THEN "last week"
            ELSE IF names(<<"n", "e", "x", "t", " ", "m", "o", "n", "t", "h">>) THEN "next month"
            ELSE IF names(<<"l", "a", "s", "t", " ", "m", "o", "n", "t", "h">>) \/ names(<<"p", "r", "e", "v", "i", "o", "u", "s", " ", "m", "o", "n", "t", "h">>) THEN "last month"
            ELSE IF names(<<"t", "h", "i", "s", " ", "w", "e", "e", "k">>) THEN "this week"
            ELSE IF names(<<"t", "h", "i", "s", " ", "m", "o", "n", "t", "h">>) THEN "this month"
            ELSE IF names(<<"y", "e", "s", "t", "e", "r", "d", "a", "y">>) THEN "yesterday"
            ELSE IF names(<<"t", "o", "m", "o", "r", "r", "o", "w">>) THEN "tomorrow"
            ELSE IF names(<<"t", "o", "d", "a", "y">>) THEN "today"
            ELSE "none"
        denotes(token) ==
            CASE token \in {"yesterday", "today", "tomorrow"} -> token
              [] token = "week" -> "this week"
              [] token = "month" -> "this month"
              [] OTHER -> "none"
        actions == translation.result.actions
    IN  (/\ translation.op = "process"
         /\ "calendar" \in services
         /\ translation.model.kind # "unconfigured"
         /\ ~translation.called) =>
           \A i \in 1..Len(actions) :
              actions[i].action = "VIEW_EVENTS" =>
                 /\ actions[i].range \in {"yesterday", "today", "tomorrow", "week", "month"}
                 /\ period # "none" => denotes(actions[i].range) = period


(***************************************************************************)
(* C24.  With calendar enabled, a message that combines a creation verb    *)
(* (schedule, create, add, book, set up) with meeting, event, appointment  *)
(* or call is translated by the deterministic stage into exactly one       *)
(* CREATE_EVENT action and into no VIEW_EVENTS action.                     *)
(***************************************************************************)
C24_CreationRequestCreatesAnEvent ==
    LET m == Lower(translation.utterance)
        creation == AnyWordIn({ <<"s", "c", "h", "e", "d", "u", "l", "e">>,
                                <<"c", "r", "e", "a", "t", "e">>,
                                <<"a", "d", "d">>, <<"b", "o", "o", "k">>,
                                <<"s", "e", "t", " ", "u", "p">> }, m)
        object == AnyWordIn({ <<"m", "e", "e", "t", "i", "n", "g">>,
                              <<"e", "v", "e", "n", "t">>,
                              <<"a", "p", "p", "o", "i", "n", "t", "m", "e", "n", "t">>,
                              <<"c", "a", "l", "l">> }, m)
        actions == translation.result.actions
    IN  (/\ translation.op = "process"
         /\ "calendar" \in services
         /\ translation.model.kind # "unconfigured"
         /\ creation /\ object) =>
           /\ ~translation.called
           /\ Len(actions) = 1
           /\ actions[1].service = "calendar"
           /\ actions[1].action = "CREATE_EVENT"


(***************************************************************************)
(* C25.  For a message made only of question marks, the deterministic      *)
(* stage of process returns the calendar VIEW_EVENTS action with range     *)
(* today exactly when calendar is enabled; with calendar disabled it       *)
(* returns nothing, so that the model is asked, and the result carries no  *)
(* calendar action.                                                        *)
(***************************************************************************)
C25_QuestionMarksShowTodayIffCalendar ==
    LET m == Strip(translation.utterance)
        marks == m # <<>> /\ \A i \in 1..Len(m) : m[i] = "?"
        actions == translation.result.actions
    IN  (/\ translation.op = "process"
         /\ translation.model.kind # "unconfigured"
         /\ marks) =>
           IF "calendar" \in services
           THEN ~translation.called /\ translation.result = ViewEvents("today")
           ELSE /\ translation.called
                /\ \A i \in 1..Len(actions) : actions[i].service # "calendar"

\* two question marks with calendar enabled
C25_Witness ==
    /\ translation.op = "process"
    /\ translation.utterance = <<"?", "?">>
    /\ "calendar" \in services
    /\ translation.model.kind = "reply"
    /\ translation.result = ViewEvents("today")

(***************************************************************************)
(* C26.  A delete request that reaches its service without an explicit     *)
(* item identifier performs no remote deletion while that message is       *)
(* handled: the handler creates a pending selection or confirmation or     *)
(* reports that nothing was found.                                         *)
(***************************************************************************)
C26_DeleteWithoutIdNeverDeletes ==
    (/\ last.req.action \in {"DELETE_EMAIL", "DELETE_EVENT", "DELETE_CONTACT",
                             "DELETE_FILE", "DELETE_TASK"}
     /\ last.req.service \in services
     /\ last.req.id = 0) =>
       /\ \A i \in 1..Len(last.calls) : last.calls[i].op # "delete"
       /\ \/ fsm[last.user] \in PendingStates
          \/ last.calls = <<>>

(***************************************************************************)
(* C27.  execute_service_action called with an action whose service is not *)
(* enabled sends the service-not-available message, calls no service,      *)
(* raises nothing and leaves the session state, the session data and all   *)
(* stored search results as they were.                                     *)
(***************************************************************************)
C27_DisabledServiceIsRefused ==
    [][(/\ \E u \in AllUsers : remaining[u] > 0 /\ remaining'[u] = remaining[u] - 1
        /\ last'.req.service \in Services \ services) =>
          /\ last'.sent = <<"not_available">>
          /\ last'.calls = <<>>
          /\ ~last'.raised
          /\ fsm' = fsm
          /\ data' = data
          /\ search_results' = search_results]_vars

\* a refused action of a message whose earlier action left a selection pending
C27_Witness ==
    /\ last.req.service \in Services \ services
    /\ last.sent = <<"not_available">>
    /\ fsm[last.user] \in SelectionStates
    /\ \E s \in services : search_results[s][last.user].items # <<>>

(***************************************************************************)
(* SpecLoop: handle_message executes the actions of one translation        *)
(* result,                                                                 *)
(*   for action in response.get('actions', []):                            *)
(*       await self.execute_service_action(action, message, state)         *)
(* The handler task is suspended in the await from StartAction until       *)
(* ReturnAction; dispatched logs both events with the position of the      *)
(* action in the list.                                                     *)
(***************************************************************************)
\* response = await self.gemini_processor.process(message.text, ...)
Translated ==
    /\ translation.op = "input"
    /\ LET p == process(translation.utterance, services, translation.model)
       IN  /\ translation' =
                [translation EXCEPT !.op = "actions", !.called = p.called,
                                    !.result = p.result]
           /\ remaining' = [remaining EXCEPT !["u1"] = Len(p.result.actions)]
    /\ UNCHANGED <<conversations, context, clock,
                   services, users, fsm, data, search_results, prompt, last,
                   inflight, dispatched>>

first_action(actions, left) == 1
\* the position in the list of the action the loop takes next
next_action(actions, left) == Len(actions) - left + 1

StartAction ==
    /\ translation.op = "actions"
    /\ inflight["t1"].pc = "none"
    /\ remaining["u1"] > 0
    /\ LET k == next_action(translation.result.actions, remaining["u1"])
       IN  dispatched' = Append(dispatched,
                                [event |-> "start", k |-> k,
                                 action |-> translation.result.actions[k]])
    /\ inflight' = [inflight EXCEPT !["t1"].pc = "awaiting"]
    /\ UNCHANGED <<conversations, context, clock,
                   services, users, fsm, data, search_results, remaining, prompt,
                   last, translation>>

ReturnAction ==
    /\ inflight["t1"].pc = "awaiting"
    /\ LET started == dispatched[Len(dispatched)]
           action == started.action
           has(keys) == \E i \in 1..Len(action.params) : action.params[i][1] \in keys
           req == Req(action.service, action.action,
                      IF has({ <<"e", "m", "a", "i", "l", "_", "i", "d">>,
                               <<"e", "v", "e", "n", "t", "_", "i", "d">> })
                      THEN 1 ELSE 0,
                      action.params # <<>>, "", "")
       IN  \E env \in EnvsFor(req) :
             LET e == execute_service_action(fsm["u1"], data["u1"],
                                             search_results[req.service]["u1"], req, env)
             IN  /\ fsm' = [fsm EXCEPT !["u1"] = e.fsm]
                 /\ data' = [data EXCEPT !["u1"] = e.data]
                 /\ search_results' = [search_results EXCEPT ![req.service]["u1"] = e.res]
                 /\ prompt' = e.prompt
                 /\ last' = [Step("u1", req.action, <<>>, e.sent, e.calls, FALSE)
                               EXCEPT !.req = req]
                 /\ dispatched' = Append(dispatched,
                                         [started EXCEPT !.event = "return"])
    /\ remaining' = [remaining EXCEPT !["u1"] = remaining["u1"] - 1]
    /\ inflight' = [inflight EXCEPT !["t1"].pc = "none"]
    /\ UNCHANGED <<conversations, context, clock,
                   services, users, translation>>

NextLoop == Translated \/ StartAction \/ ReturnAction

SpecLoop == InitTranslate /\ [][NextLoop]_vars

(***************************************************************************)
(* C28.  The actions of one translation result are dispatched one at a     *)
(* time in list order: the dispatch of action k + 1 starts only after the  *)
(* dispatch of action k has returned, and when the loop is through every   *)
(* action of the list has been dispatched exactly once.                    *)
(***************************************************************************)
C28_ActionsDispatchedInListOrder ==
    LET actions == translation.result.actions
    IN  /\ \A i \in 1..Len(dispatched) :
             /\ dispatched[i].event = (IF i % 2 = 1 THEN "start" ELSE "return")
             /\ dispatched[i].k = (i + 1) \div 2
             /\ dispatched[i].k <= Len(actions)
             /\ dispatched[i].action = actions[dispatched[i].k]
        /\ (translation.op = "actions" /\ remaining["u1"] = 0) =>
              Len(dispatched) = 2 * Len(actions)

\* both actions of a result with two actions have been dispatched
C28_Witness ==
    /\ translation.op = "actions"
    /\ Len(translation.result.actions) = 2
    /\ remaining["u1"] = 0
    /\ Len(dispatched) = 4
    /\ dispatched[3].action = translation.result.actions[2]

(***************************************************************************)
(* SpecCompose: handle_email_composition (StateFilter composing_email).    *)
(* The session starts as handle_email_selection leaves it for the action   *)
(* 'reply' (set_state(composing_email), update_data(reply_to, email_data)) *)
(* or holding the 'to' and 'subject' the handler reads for a new email.    *)
(* The handler has no try/except: an exception leaves it before            *)
(* state.clear().                                                          *)
(***************************************************************************)
email_composition(f, d, text, out, orig) ==
    LET Mail(to, subject, thread) ==
            [to |-> to, subject |-> subject, body |-> text, thread |-> thread]
        \* handle_reply_email: the reply joins the thread of the first message
        \* its own search 'from:{to} OR to:{to}' returns (orig); with none
        \* found it is sent as a new email, outside any thread
        call == IF "reply_to" \in DOMAIN d
                THEN Call("gmail", "reply", Get(d, "email_data", 0),
                          IF orig = 0 THEN Mail("From", "Re: Your message", 0)
                          ELSE Mail("From", "", orig))
                ELSE Call("gmail", "send", 0,
                          Mail(Get(d, "to", "None"), Get(d, "subject", "No Subject"), 0))
    IN  IF Lower(text) \in {T_cancel, T_stop}
        THEN Cleared(NoResults, <<"cancelled">>, <<>>)
        \* self.services['gmail'] raises KeyError
        ELSE IF "gmail" \notin services THEN Eff(f, d, NoResults, <<>>, <<>>, TRUE)
        \* params.get('to', '').strip() raises AttributeError on None
        ELSE IF "reply_to" \notin DOMAIN d /\ "to" \notin DOMAIN d
        THEN Eff(f, d, NoResults, <<>>, <<>>, TRUE)
        ELSE IF out = "raise" THEN Eff(f, d, NoResults, <<>>, <<call>>, TRUE)
        ELSE Cleared(NoResults, <<"result">>, <<call>>)

InitCompose ==
    /\ services \in {S \in SUBSET Services : "gmail" \in S}
    /\ users = {"u1"}
    /\ fsm = [u \in AllUsers |-> IF u = "u1" THEN "composing_email" ELSE IDLE]
    /\ \E d \in { ("action" :> "reply") @@ ("reply_to" :> i) @@ ("email_data" :> i) :
                    i \in 1..MaxList }
                \cup { ("to" :> "ann@example.com") @@ ("subject" :> "subject"),
                       EmptyData } :
         data = [u \in AllUsers |-> IF u = "u1" THEN d ELSE EmptyData]
    /\ search_results = [s \in Services |-> [u \in AllUsers |-> NoResults]]
    /\ remaining = [u \in AllUsers |-> 0]
    /\ prompt = NoPrompt
    /\ last = Step("none", "none", <<>>, <<>>, <<>>, FALSE)
    /\ inflight = NoTasks
    /\ dispatched = <<>>
    /\ translation = NoTranslation
    /\ conversations = [u \in AllUsers |-> <<>>]
    /\ context = <<>>
    /\ clock = 0

HandleEmailComposition(u) ==
    /\ u \in users /\ remaining[u] = 0
    /\ fsm[u] = "composing_email"
    \* orig: the message of the mailbox, among those exchanged with the sender
    \* of the selected email, that the search of handle_reply_email returns
    /\ \E text \in Replies, out \in Outcomes, orig \in 0..MaxList :
          LET e == email_composition(fsm[u], data[u], text, out, orig)
          IN  /\ fsm' = [fsm EXCEPT ![u] = e.fsm]
              /\ data' = [data EXCEPT ![u] = e.data]
              /\ last' = Step(u, "email_composition", text, e.sent, e.calls, e.raised)
              /\ prompt' = NoPrompt
              /\ UNCHANGED <<aux, services, users, search_results, remaining>>

NextCompose == \E u \in AllUsers : HandleEmailComposition(u)

SpecCompose == InitCompose /\ [][NextCompose]_vars

MaxCalls == 12
MAX_CONVERSATION_LENGTH == 10
MAX_CONTEXT_MESSAGES == 6
ContextCap == 500

\* a variant of get_context that formats the whole history
whole_history(messages, num_messages) ==
    [i \in 1..Len(messages) |->
        [role |-> messages[i].role, timestamp |-> messages[i].timestamp,
         content |-> messages[i].content, dots |-> FALSE]]

\* messages = list(self.conversations[user_id])[-num_messages:], then one
\* line for each message
get_context(messages, num_messages) ==
    LET from == IF Len(messages) > num_messages
                THEN Len(messages) - num_messages + 1 ELSE 1
        recent == SubSeq(messages, from, Len(messages))
    IN  [i \in 1..Len(recent) |->
            [role |-> IF recent[i].role = "user" THEN "User" ELSE "Assistant",
             timestamp |-> recent[i].timestamp,
             content |-> IF recent[i].content > ContextCap
                         THEN ContextCap ELSE recent[i].content,
             dots |-> recent[i].content > ContextCap]]

\* self.conversations[user_id].append({...}) on a deque(maxlen=self.max_length)
AddMessage(u) ==
    /\ u \in users /\ clock < MaxCalls
    /\ \E said \in { [role |-> "user", content |-> ContextCap],
                      [role |-> "assistant", content |-> ContextCap + 1] } :
          LET message == [role |-> said.role, content |-> said.content,
                          timestamp |-> clock + 1]
              appended == Append(conversations[u], message)
          IN  conversations' =
                [conversations EXCEPT ![u] =
                    IF Len(appended) > MAX_CONVERSATION_LENGTH
                    THEN Tail(appended) ELSE appended]
    /\ clock' = clock + 1
    /\ context' = <<>>
    /\ UNCHANGED <<services, users, fsm, data, search_results, remaining, prompt, last,
                   inflight, dispatched, translation>>

GetContext(u) ==
    /\ u \in users
    /\ context' = get_context(conversations[u], MAX_CONTEXT_MESSAGES)
    /\ UNCHANGED <<services, users, fsm, data, search_results, remaining, prompt, last,
                   inflight, dispatched, translation, conversations, clock>>

\* self.conversations[user_id].clear()
ClearHistory(u) ==
    /\ u \in users
    /\ conversations[u] # <<>>
    /\ conversations' = [conversations EXCEPT ![u] = <<>>]
    /\ context' = <<>>
    /\ UNCHANGED <<services, users, fsm, data, search_results, remaining, prompt, last,
                   inflight, dispatched, translation, clock>>

NextHistory == \E u \in AllUsers : AddMessage(u) \/ GetContext(u) \/ ClearHistory(u)

SpecHistory == Init /\ [][NextHistory]_vars

(***************************************************************************)
(* C30.  After any sequence of add_message calls a user's history holds at *)
(* most MAX_CONVERSATION_LENGTH entries, the most recent ones in order,    *)
(* and get_context returns at most MAX_CONTEXT_MESSAGES entries, the most  *)
(* recent ones of the history in order.  Each entry of the context is at   *)
(* most 500 characters long (as stated), or holds at most the first 500    *)
(* characters of the content followed by "..." (as the code has it).       *)
(***************************************************************************)
C30_HistoryAndContextAreBounded ==
    LET history == conversations["u1"]
        shown == Len(context)
        Bounded(cap) ==
            /\ Len(history) <= MAX_CONVERSATION_LENGTH
            /\ \A i \in 1..Len(history) :
                 history[i].timestamp = clock - Len(history) + i
            /\ shown <= MAX_CONTEXT_MESSAGES
            /\ shown <= Len(history)
            /\ \A i \in 1..shown :
                 LET message == history[Len(history) - shown + i]
                 IN  /\ context[i].timestamp = message.timestamp
                     /\ context[i].content <= ContextCap
                     /\ context[i].content <= message.content
                     /\ context[i].dots = (message.content > ContextCap)
                     /\ context[i].content + (IF context[i].dots THEN 3 ELSE 0) <= cap
    IN  Bounded(ContextCap + 3)

\* C30 as stated: no entry of the context is longer than 500 characters
C30_ContextEntriesAtMost500 ==
    \A i \in 1..Len(context) :
       context[i].content + (IF context[i].dots THEN 3 ELSE 0) <= ContextCap

\* the history has dropped its oldest entries and the context shows the six
\* most recent ones, one of them cut
C30_Witness ==
    /\ clock > MAX_CONVERSATION_LENGTH
    /\ Len(conversations["u1"]) = MAX_CONVERSATION_LENGTH
    /\ Len(context) = MAX_CONTEXT_MESSAGES
    /\ \E i \in 1..Len(context) : context[i].dots

(***************************************************************************)
(* C33.  Every action in the result process returns, whichever stage       *)
(* produced it (calendar intent check, quick pattern match, parsed reply   *)
(* of the model or fallback classifier), names a service of the enabled    *)
(* set process was called with.                                            *)
(***************************************************************************)
C33_ProcessNamesOnlyEnabledServices ==
    translation.op = "process" =>
       \A i \in 1..Len(translation.result.actions) :
          translation.result.actions[i].service \in services


C36_PendingReplyIsAnswered ==
    last.handler \in {"email_selection", "file_selection", "contact_selection",
                      "task_selection", "confirmation"}
       => last.sent # <<>>


(***************************************************************************)
(* C35.  When a selection resolves, the collaborator operation is invoked  *)
(* with the parameters stored when the pending interaction was created: a  *)
(* file share that follows a file selection is made for the recipient      *)
(* stored with the pending share.                                          *)
(***************************************************************************)
C35_ShareUsesStoredRecipient ==
    [][\A u \in AllUsers :
          (/\ fsm[u] = "selecting_file"
           /\ Get(data[u], "action", "None") = "share"
           /\ last'.user = u /\ last'.handler = "file_selection"
           /\ last'.calls # <<>>)
          => last'.calls[1].arg = Get(data[u], "params", NoParams).email]_vars


(***************************************************************************)
(* C34.  From the moment a selection prompt is shown to a user until that  *)
(* selection is resolved or cancelled, the candidate list stored for that  *)
(* user and service is not replaced or modified: while the user is in a    *)
(* selection state whose prompt was delivered, a step that is neither the  *)
(* handler of that state nor a command (so a later action of the same      *)
(* translator result) leaves the list of that service unchanged.           *)
(***************************************************************************)
C34_PromptedListIsFrozen ==
    [][\A u \in AllUsers :
          (/\ fsm[u] \in SelectionStates
           /\ prompt.service = SelectionService(fsm[u]) /\ prompt.delivered
           /\ last'.user = u
           /\ last'.handler \notin {"email_selection", "file_selection",
                                    "contact_selection", "task_selection",
                                    "commands"})
          => search_results'[SelectionService(fsm[u])][u]
                = search_results[SelectionService(fsm[u])][u]]_vars


MaxHistory == 3

UserReplies == {<<>>, T_1, T_2, T_cancel, <<"h", "e", "l", "l", "o">>}

InitUsers ==
    /\ services = {"gmail"}
    /\ users = AllUsers
    /\ fsm = [u \in AllUsers |-> IDLE]
    /\ data = [u \in AllUsers |-> EmptyData]
    /\ search_results = [s \in Services |-> [u \in AllUsers |-> NoResults]]
    /\ remaining = [u \in AllUsers |-> 0]
    /\ prompt = NoPrompt
    /\ last = Step("none", "none", <<>>, <<>>, <<>>, FALSE)
    /\ inflight = NoTasks
    /\ dispatched = <<>>
    /\ translation = NoTranslation
    /\ conversations = [u \in AllUsers |-> <<>>]
    /\ context = <<>>
    /\ clock = 0

SpecUsers ==
    InitUsers /\ [][\E u \in AllUsers :
        \/ clock = 0 /\ HandleCommands(u) /\ last'.text = <<"/clear">>
        \/ clock = 0 /\ HandleEmailSelection(u) /\ last'.text \in UserReplies
        \/ clock = 0 /\ HandleMessage(u) /\ last'.text \in UserReplies
        \/ clock = 0 /\ ExecuteServiceAction(u) /\ last'.req.service \in services
        \/ last.handler = "none" /\ clock < MaxHistory /\ AddMessage(u)
        \/ last.handler = "none" /\ ClearHistory(u)]_vars

loop_free == \A s \in TaskIds : inflight[s].pc # "in_model"

\* handle_message up to its first await: the session is IDLE, the typing
\* action is sent
BeginMessage(t) ==
    /\ loop_free
    /\ inflight[t].pc = "queued"
    /\ inflight' = [inflight EXCEPT ![t].pc = "typing"]
    /\ UNCHANGED <<conversations, context, clock,
                   services, users, fsm, data, search_results, remaining, prompt,
                   last, dispatched, translation>>

\* process: a calendar or quick pattern answers at once and the handler goes
\* on to the loop over the actions (or ends, with no action); otherwise the
\* model is called
CallProcess(t) ==
    /\ loop_free
    /\ inflight[t].pc = "typing"
    /\ \E next \in {"in_model", "awaiting", "done"} :
          inflight' = [inflight EXCEPT ![t].pc = next]
    /\ UNCHANGED <<conversations, context, clock,
                   services, users, fsm, data, search_results, remaining, prompt,
                   last, dispatched, translation>>

\* generate_content returns or raises (the except branch runs the fallback
\* classifier); the handler goes on to the loop over the actions
ModelReturns(t) ==
    /\ inflight[t].pc = "in_model"
    /\ \E out \in Outcomes, next \in {"awaiting", "done"} :
          inflight' = [inflight EXCEPT ![t].pc = next, ![t].clears = out = "raise"]
    /\ UNCHANGED <<conversations, context, clock,
                   services, users, fsm, data, search_results, remaining, prompt,
                   last, dispatched, translation>>

\* make_api_call returns a result, or a failure for an exception of aiohttp;
\* the handler answers and ends, the session IDLE
ActionReturns(t) ==
    /\ loop_free
    /\ inflight[t].pc = "awaiting"
    /\ \E ok \in BOOLEAN :
          inflight' = [inflight EXCEPT ![t].pc = "done",
                                       ![t].pops = IF ok THEN "result" ELSE "failure"]
    /\ UNCHANGED <<conversations, context, clock,
                   services, users, fsm, data, search_results, remaining, prompt,
                   last, dispatched, translation>>

SpecCalls ==
    InitUsers /\ [][\E t \in TaskIds :
                       \/ loop_free /\ Deliver(t)
                       \/ BeginMessage(t)
                       \/ CallProcess(t)
                       \/ ModelReturns(t)
                       \/ ActionReturns(t)]_vars

\* The event loop runs every task that is ready; nothing obliges the model
\* or a remote service to answer.
SpecCallsFair ==
    SpecCalls /\ \A t \in TaskIds : WF_vars(BeginMessage(t)) /\ WF_vars(CallProcess(t))

(***************************************************************************)
(* C31.  While one user's model call is outstanding, messages of other     *)
(* users can still be processed: an outstanding translator call of user A  *)
(* never prevents a step of user B's session.  Whenever the task of one    *)
(* user is inside the call of the model and the task of the other user is  *)
(* ready to run, the step of that other task can be taken.                 *)
(***************************************************************************)
C31_ModelCallDoesNotBlockOtherUsers ==
    \A a, b \in TaskIds :
       (a # b /\ inflight[a].pc = "in_model") =>
          /\ inflight[b].pc = "queued" => ENABLED BeginMessage(b)
          /\ inflight[b].pc = "typing" => ENABLED CallProcess(b)
          /\ inflight[b].pc = "awaiting" => ENABLED ActionReturns(b)

(***************************************************************************)
(* C32.  A model call or remote action that never answers is treated as a  *)
(* failure after a finite timeout, after which the handling of that        *)
(* message ends and the user's session is IDLE: no message handling waits  *)
(* forever, every task that was started ends with its user's session IDLE. *)
(***************************************************************************)
C32_EveryHandlingEnds ==
    \A t \in TaskIds :
       (inflight[t].pc = "queued") ~>
          (inflight[t].pc = "done" /\ \A u \in AllUsers : fsm[u] = IDLE)

=============================================================================
